---- MODULE Spec2Model ----
(***************************************************************************)
(* A model of parts of the node:                                           *)
(*   - the orphan blocks pool (protocol/flows/src/flowcontext/orphans.rs)  *)
(*   - the non-fair semaphore (utils/src/sync/semaphore.rs)                *)
(*   - the mempool frontier   (mining/src/mempool/model/frontier.rs) and   *)
(*     its keys               (.../frontier/feerate_key.rs)                *)
(*   - the mining manager     (mining/src/manager.rs): block templates,    *)
(*     revalidation, validation chunks, ingestion under the mempool lock,  *)
(*     concurrent callers of get_block_template                            *)
(*   - modify_block_template  (mining/src/block_template/builder.rs)       *)
(*   - the database cache     (database/src/cache.rs)                      *)
(*   - calc_average_target    (consensus/src/processes/difficulty.rs)      *)
(*   - reachability and GHOSTDAG (consensus/src/processes)                 *)
(* Each part has its own specification; the variables of the other parts   *)
(* are parked at a fixed value while one part runs. The specifications     *)
(* whose names end in Fair add the fairness that the scheduling gives.     *)
(***************************************************************************)
EXTENDS Integers, Sequences, FiniteSets, TLC

VARIABLES
    \* ---- orphan blocks pool and the consensus it talks to
    parents,        \* header.direct_parents() of every block of the universe
    status,         \* consensus statuses store: hash -> none/header/body/invalid
    inflight,       \* blocks handed to validate_and_insert_block, not yet processed
    orphans,        \* OrphanBlocksPool::orphans, the IndexMap keys in index order
    children,       \* OrphanBlock::children of every pool entry
    opc,            \* position of the one pool handler that runs (&mut self)
    root,           \* unorphan_blocks: the root argument
    process_queue,  \* unorphan_blocks: the ProcessQueue
    processing,     \* unorphan_blocks: keys of the processing map, in insertion order
    sweep_i,        \* revalidate_orphans: index i of the first sweep
    reval_roots,    \* revalidate_orphans: roots still to be processed
    queued_hashes,  \* revalidate_orphans: the hashes returned
    validate_calls, \* the blocks passed to validate_and_insert_block by the running call, in order
    call,           \* the running (or just returned) call: arguments, pre-state, result
    \* ---- semaphore
    counter,        \* Semaphore::counter
    signal,         \* Semaphore::signal: the active listeners, oldest first
    notified,       \* clients whose listener holds a notification not yet taken
    client,         \* per client: position, operation, permits asked, count read, permits held
    \* ---- mempool frontier
    key_of,         \* the FeerateTransactionKey of every transaction id
    feerate_order,  \* Frontier::feerate_order: the transaction ids of its keys, in key order
    total_weight,   \* Frontier::total_weight
    total_mass,     \* Frontier::total_mass
    fpc,            \* position of the frontier's caller
    fcall,          \* the insert or remove that just returned
    amount,         \* sample: the amount argument
    cuts,           \* sample: where the tree's leaves end (positions in feerate_order)
    cache,          \* sample: the seen-set of transaction ids
    sampled,        \* sample: the keys yielded so far
    \* ---- mining manager: block templates
    spends,         \* for every transaction, the transactions whose outputs it spends
    mempool,        \* the transactions in the mempool's transaction pool
    gone,           \* the transactions that have left the pool: accepted by a block, or removed
    template_cache, \* BlockTemplateCache: the cached template, or NoTemplate
    tpc,            \* position of the caller of get_block_template
    transactions,   \* get_block_template: the candidate set read in this round
    invalid_transactions,   \* get_block_template: the (transaction, error) pairs consensus cited
    tcall,          \* get_block_template: the request, the last step taken and its result
    \* ---- block template builder: modify_block_template
    modify_in,      \* the template to modify and the two miner data values asked for
    modified,       \* the results: for the second miner directly, for the first, and for the second after the first
    mpc,            \* position of the caller of modify_block_template
    \* ---- mining manager: revalidate_high_priority_transactions (on spends, mempool and gone)
    high,           \* the transactions of Priority::High
    rpc,            \* position of the caller of revalidate_high_priority_transactions
    hp_transactions, \* the high priority transactions found in the mempool at the start
    batch,          \* TransactionsStagger: the transactions not staggered yet
    batch_txs,      \* the transactions of the batch under way, as stagger() returned them
    revalidated,    \* the transactions of the batch kept by the filter whose results are not applied yet
    applied,        \* the transaction and the validation result applied last
    chunk_n,        \* results applied in the chunk under way; above zero the write lock is held
    valid_ids,      \* the ids of the chunk under way that passed
    sink,           \* transaction_ids_sender: the id vectors sent
    \* ---- database cache
    policy,         \* CachePolicy: Unit or Tracked, and its max_size
    inner,          \* Inner: the map, in index order, and tracked_size
    write_guard,    \* the operation that holds the write lock of inner, or "none"
    last_op,        \* the last operation called on the cache and what it removed at random
    \* ---- difficulty: the average target of a window
    difficulty_blocks, \* the bits of the blocks of the window
    average,        \* what calc_average_target and calc_average_target_unoptimized returned for them
    \* ---- reachability: the store, built by the test builders
    store,          \* ReachabilityStore: parent, children, interval, height and future covering set per block
    relations,      \* RelationsStore: the parents of each block of the DAG
    reindex_root,   \* the reindex root of the store
    built,          \* the last block a builder added and whether its insertion reindexed
    \* ---- GHOSTDAG: the processor colouring the mergeset of every block it is given
    ghostdag_relations, \* relations store: hash -> the set of its parents
    ghostdag_store, \* ghostdag store: hash -> GhostdagData
    \* ---- mining manager: the validation chunks of a transaction vector
    chunk_txs,      \* the calculated_mass of every transaction of the vector
    lower_bound,    \* lower_bound of the chunk loop
    upper_bounds,   \* the upper bounds next_transaction_chunk_upper_bound returned, in order
    validated,      \* validation_results: the index of the transaction behind each result
    cpc,            \* position of the chunk loop
    \* ---- mining manager: transactions on their way into the mempool (on spends, mempool and gone)
    orphan_pool,    \* the transactions in the mempool's orphan pool
    entry,          \* the function of the manager that was called
    ipc,            \* the operation the calling thread is about to do
    guards,         \* the guards of the mempool lock the calling thread holds
    orphan_arg,     \* the orphan argument of the call
    call_txs,       \* the transaction, or the batch of transactions, of the call
    stagger_left,   \* TransactionsStagger: the transactions not released yet
    layer,          \* transactions: the vector under way
    validation_results, \* the validation result of every transaction of the vector
    incoming_transactions, \* validate_and_insert_unorphaned_transactions: the transactions of the next round
    accepted_transactions, \* the accepted transactions collected for the caller
    outcome,        \* how the call ended: Ok, Err or panic
    unorphaned_log, \* the transactions taken out of the orphan pool during the call
    post_outcome,   \* what post validation last returned for every transaction
    layers,         \* the vectors stagger() returned, in order
    \* ---- mempool frontier: the keys built from mempool transactions
    mempool_txs,    \* two mempool transactions: calculated fee, mass, transaction id, priority
    keys_built,     \* the FeerateTransactionKey built from each of them, or NoKey
    ordering,       \* what cmp returned for the two keys, or "none"
    \* ---- mining manager: concurrent callers of get_block_template
    cache_lock,     \* the caller that holds the block_template_cache mutex, or 0
    block_template_cache, \* the template in the cache, or NoCached
    miner,          \* every caller of get_block_template: position, miner data, result
    mempool_rw      \* the mempool RwLock: the threads that hold a read guard, a write guard

orphan_vars == <<parents, status, inflight, orphans, children, opc, root,
                 process_queue, processing, sweep_i, reval_roots, queued_hashes,
                 validate_calls, call>>

sem_vars == <<counter, signal, notified, client>>

frontier_vars == <<key_of, feerate_order, total_weight, total_mass, fpc, fcall, amount,
                   cuts, cache, sampled>>

template_vars == <<spends, mempool, gone, template_cache, tpc, transactions, invalid_transactions, tcall>>

modify_vars == <<modify_in, modified, mpc>>

reval_vars ==
    <<high, rpc, hp_transactions, batch, batch_txs, revalidated, applied, chunk_n, valid_ids, sink>>

\* the variables of the template part that are not the mempool
template_call_vars == <<template_cache, tpc, transactions, invalid_transactions, tcall>>

cache_vars == <<policy, inner, write_guard, last_op>>

difficulty_vars == <<difficulty_blocks, average>>

reach_vars == <<store, relations, reindex_root, built>>

ghostdag_vars == <<ghostdag_relations, ghostdag_store>>

chunk_vars == <<chunk_txs, lower_bound, upper_bounds, validated, cpc>>

ingest_vars ==
    <<orphan_pool, entry, ipc, guards, orphan_arg, call_txs, stagger_left, layer, validation_results,
      incoming_transactions, accepted_transactions, outcome, unorphaned_log, post_outcome, layers>>

key_vars == <<mempool_txs, keys_built, ordering>>

miner_vars == <<cache_lock, block_template_cache, miner, mempool_rw>>

\* what the actions of one part leave alone: the other parts
outside_orphans == <<sem_vars, frontier_vars, template_vars, modify_vars, reval_vars, cache_vars,
    difficulty_vars, reach_vars, ghostdag_vars, chunk_vars, ingest_vars, key_vars, miner_vars>>
outside_semaphore == <<orphan_vars, frontier_vars, template_vars, modify_vars, reval_vars,
    cache_vars, difficulty_vars, reach_vars, ghostdag_vars, chunk_vars, ingest_vars, key_vars,
    miner_vars>>
outside_frontier == <<orphan_vars, sem_vars, template_vars, modify_vars, reval_vars, cache_vars,
    difficulty_vars, reach_vars, ghostdag_vars, chunk_vars, ingest_vars, key_vars, miner_vars>>
outside_template == <<orphan_vars, sem_vars, frontier_vars, modify_vars, reval_vars, cache_vars,
    difficulty_vars, reach_vars, ghostdag_vars, chunk_vars, ingest_vars, key_vars, miner_vars>>
outside_modify == <<orphan_vars, sem_vars, frontier_vars, template_vars, reval_vars, cache_vars,
    difficulty_vars, reach_vars, ghostdag_vars, chunk_vars, ingest_vars, key_vars, miner_vars>>
outside_revalidate == <<orphan_vars, sem_vars, frontier_vars, template_call_vars, modify_vars,
    cache_vars, difficulty_vars, reach_vars, ghostdag_vars, chunk_vars, ingest_vars, key_vars,
    miner_vars>>
outside_cache == <<orphan_vars, sem_vars, frontier_vars, template_vars, modify_vars, reval_vars,
    difficulty_vars, reach_vars, ghostdag_vars, chunk_vars, ingest_vars, key_vars, miner_vars>>
outside_difficulty == <<orphan_vars, sem_vars, frontier_vars, template_vars, modify_vars,
    reval_vars, cache_vars, reach_vars, ghostdag_vars, chunk_vars, ingest_vars, key_vars,
    miner_vars>>
outside_reachability == <<orphan_vars, sem_vars, frontier_vars, template_vars, modify_vars,
    reval_vars, cache_vars, difficulty_vars, ghostdag_vars, chunk_vars, ingest_vars, key_vars,
    miner_vars>>
outside_ghostdag == <<orphan_vars, sem_vars, frontier_vars, template_vars, modify_vars,
    reval_vars, cache_vars, difficulty_vars, reach_vars, chunk_vars, ingest_vars, key_vars,
    miner_vars>>
outside_chunks == <<orphan_vars, sem_vars, frontier_vars, template_vars, modify_vars, reval_vars,
    cache_vars, difficulty_vars, reach_vars, ghostdag_vars, ingest_vars, key_vars, miner_vars>>
outside_ingest == <<orphan_vars, sem_vars, frontier_vars, template_call_vars, modify_vars,
    reval_vars, cache_vars, difficulty_vars, reach_vars, ghostdag_vars, chunk_vars, key_vars,
    miner_vars>>
outside_keys == <<orphan_vars, sem_vars, frontier_vars, template_vars, modify_vars, reval_vars,
    cache_vars, difficulty_vars, reach_vars, ghostdag_vars, chunk_vars, ingest_vars, miner_vars>>
outside_miners == <<orphan_vars, sem_vars, frontier_vars, template_vars, modify_vars, reval_vars,
    cache_vars, difficulty_vars, reach_vars, ghostdag_vars, chunk_vars, ingest_vars, key_vars>>

-----------------------------------------------------------------------------
(* Bounds of the orphan pool model *)

\* number of blocks besides genesis (hash 0)
NumBlocks == 3

\* OrphanBlocksPool::max_orphans, a constructor argument
max_orphans == 2

\* hash 0 is genesis: always in consensus with its body, never an orphan
Blocks == 1..NumBlocks
Hashes == 0..NumBlocks

Range(s) == {s[k] : k \in 1..Len(s)}

Max(a, b) == IF a >= b THEN a ELSE b
Min(a, b) == IF a <= b THEN a ELSE b

\* the parents lists a block b may carry: one or two of the two hashes below it
ParentChoices(b) ==
    {<<b - 1>>} \cup (IF b >= 2 THEN {<<b - 2>>, <<b - 2, b - 1>>} ELSE {})

\* every ordering of a finite set, as sequences without repetition
Perms(S) == {s \in [1..Cardinality(S) -> S] : \A a, b \in 1..Cardinality(S) : a # b => s[a] # s[b]}

-----------------------------------------------------------------------------
(* IndexMap *)

contains_key(orph, h) == h \in Range(orph)

IndexOf(orph, h) == CHOOSE k \in 1..Len(orph) : orph[k] = h

\* IndexMap::swap_remove_index (1-based here): the last entry moves into the hole
swap_remove_index(orph, k) ==
    IF k \notin 1..Len(orph) THEN orph
    ELSE IF k = Len(orph) THEN SubSeq(orph, 1, Len(orph) - 1)
    ELSE [j \in 1..(Len(orph) - 1) |-> IF j = k THEN orph[Len(orph)] ELSE orph[j]]

\* a removal that leaves the entry in the pool
keep_entry(orph, h) == orph

\* IndexMap::remove and OccupiedEntry::remove are swap_remove
swap_remove(orph, h) ==
    IF contains_key(orph, h) THEN swap_remove_index(orph, IndexOf(orph, h)) ELSE orph

-----------------------------------------------------------------------------
(* Consensus statuses *)

\* a root test that takes a header for a body
is_none(st, h) == st[h] = "none"

\* status.is_none_or(|s| s.is_header_only())
is_none_or_header_only(st, h) == st[h] \in {"none", "header"}

\* status.is_some_and(|s| s.is_invalid() || s.has_block_body())
is_invalid_or_has_body(st, h) == st[h] \in {"invalid", "body"}

-----------------------------------------------------------------------------
(* get_orphan_roots *)

\* the BFS loop of get_orphan_roots; acc = [roots, known_orphan_ancestors]
RECURSIVE roots_loop(_, _, _, _, _, _)
roots_loop(orph, st, orphan, queue, visited, acc) ==
    IF queue = <<>> THEN acc
    ELSE
        LET current == Head(queue)
        IN  IF contains_key(orph, current)
            THEN LET new == SelectSeq(parents[current], LAMBDA p : p \notin visited)
                 IN  roots_loop(orph, st, orphan, Tail(queue) \o new, visited \cup Range(new),
                                [acc EXCEPT !.known_orphan_ancestors = @ \/ (orphan # current)])
            ELSE IF is_none_or_header_only(st, current)
                 THEN roots_loop(orph, st, orphan, Tail(queue), visited,
                                 [acc EXCEPT !.roots = Append(@, current)])
                 ELSE roots_loop(orph, st, orphan, Tail(queue), visited, acc)

\* a match that takes the orphan itself for a known orphan ancestor
roots_output_self_known(acc) ==
    IF acc.roots # <<>> THEN [kind |-> "Roots", roots |-> acc.roots]
    ELSE [kind |-> "NoRoots", roots |-> <<>>]

\* the final match of get_orphan_roots
roots_output(acc) ==
    IF acc.roots # <<>> THEN [kind |-> "Roots", roots |-> acc.roots]
    ELSE IF acc.known_orphan_ancestors THEN [kind |-> "NoRoots", roots |-> <<>>]
    ELSE [kind |-> "NotOrphan", roots |-> <<>>]

get_orphan_roots(orph, st, orphan) ==
    roots_output(roots_loop(orph, st, orphan, <<orphan>>, {orphan},
                            [roots |-> <<>>, known_orphan_ancestors |-> FALSE]))

get_orphan_roots_if_known(orph, st, orphan) ==
    IF ~contains_key(orph, orphan) THEN [kind |-> "Unknown", roots |-> <<>>]
    ELSE get_orphan_roots(orph, st, orphan)

\* iterate_child_orphans(hash), collected into a set
iterate_child_orphans(orph, h) == {o \in Range(orph) : h \in Range(parents[o])}

-----------------------------------------------------------------------------
(* The record of the running call: arguments, pre-state, result *)

NoOutput == [kind |-> "None", roots |-> <<>>]

NoCall == [op |-> "none", hash |-> 0, pre_orphans |-> <<>>, pre_children |-> [h \in Blocks |-> {}],
           ret |-> NoOutput, blocks |-> <<>>]

new_call(op, h) == [op |-> op, hash |-> h, pre_orphans |-> orphans, pre_children |-> children,
                    ret |-> NoOutput, blocks |-> <<>>]

\* children sets exist only for pool entries: a removed entry drops its set
drop_children(ch, orph) == [h \in Blocks |-> IF contains_key(orph, h) THEN ch[h] ELSE {}]

-----------------------------------------------------------------------------
(* add_orphan *)

\* a pool that evicts only once it has grown past the limit
evict_late(orph, k) == IF Len(orph) > max_orphans THEN swap_remove_index(orph, k) ELSE orph

\* the pool after the eviction of add_orphan; k is gen_range(0..max_orphans) + 1
evict(orph, k) == IF Len(orph) = max_orphans THEN swap_remove_index(orph, k) ELSE orph

\* a pool that inserts first and then evicts at an index of the grown map
insert_then_evict(orph, b, k) ==
    LET ins == Append(orph, b)
    IN  IF Len(ins) > max_orphans THEN swap_remove_index(ins, k + 1) ELSE ins

\* the keys of the pool when add_orphan(b) is through: evict, then insert at the end
pool_after_add(orph, b, k) == Append(evict(orph, k), b)

\* an insertion that leaves the children sets of the parents as they are
backlink_none(ch, orph, b) == ch

\* the loop over direct_parents that backlinks the new orphan
backlink(ch, orph, b) ==
    [h \in Blocks |-> IF contains_key(orph, h) /\ h \in Range(parents[b]) THEN ch[h] \cup {b} ELSE ch[h]]

add_orphan(b, k) ==
    /\ UNCHANGED outside_orphans
    /\ opc = "idle"
    /\ IF contains_key(orphans, b)
       THEN /\ call' = new_call("add_orphan", b)
            /\ UNCHANGED <<orphans, children>>
       ELSE LET kept == evict(orphans, k)
                ch1 == backlink(drop_children(children, kept), kept, b)
                ins == pool_after_add(orphans, b, k)
                ch2 == [ch1 EXCEPT ![b] = iterate_child_orphans(kept, b)]
            IN  /\ orphans' = ins
                /\ children' = ch2
                /\ call' = [new_call("add_orphan", b) EXCEPT
                              !.ret = get_orphan_roots(ins, status, b)]
    /\ opc' = "done"
    /\ UNCHANGED <<parents, status, inflight, root, process_queue, processing, sweep_i,
                   reval_roots, queued_hashes, validate_calls>>

(* get_orphan_roots_if_known *)
query_roots(h) ==
    /\ UNCHANGED outside_orphans
    /\ opc = "idle"
    /\ call' = [new_call("get_orphan_roots_if_known", h) EXCEPT
                  !.ret = get_orphan_roots_if_known(orphans, status, h)]
    /\ opc' = "done"
    /\ UNCHANGED <<parents, status, inflight, orphans, children, root, process_queue,
                   processing, sweep_i, reval_roots, queued_hashes, validate_calls>>

-----------------------------------------------------------------------------
(* unorphan_blocks *)

\* a processable test that forgets the blocks submitted earlier in the call
processable_by_status_only(h, procd, st) ==
    \A p \in Range(parents[h]) : ~is_none_or_header_only(st, p)

\* a processable test that is content with one parent that is ready
processable_by_any_parent(h, procd, st) ==
    \E p \in Range(parents[h]) : p \in procd \/ ~is_none_or_header_only(st, p)

\* the processable test of unorphan_blocks for pool entry h
unorphan_processable(h, procd, st) ==
    \A p \in Range(parents[h]) : p \in procd \/ ~is_none_or_header_only(st, p)

\* ProcessQueue::enqueue_chunk: items already queued are skipped; a HashSet is
\* iterated in an arbitrary order
enqueue_chunk(queue, chunk) == {queue \o s : s \in Perms(chunk \ Range(queue))}

\* the first two statements of unorphan_blocks: remove the root entry, seed the queue
unorphan_enter(r) ==
    LET seed == IF contains_key(orphans, r) THEN children[r] ELSE iterate_child_orphans(orphans, r)
        rest == swap_remove(orphans, r)
    IN  /\ orphans' = rest
        /\ children' = drop_children(children, rest)
        /\ process_queue' \in enqueue_chunk(<<>>, seed)
        /\ processing' = <<>>
        /\ root' = r

unorphan_blocks(r) ==
    /\ UNCHANGED outside_orphans
    /\ opc = "idle"
    /\ unorphan_enter(r)
    /\ call' = new_call("unorphan_blocks", r)
    /\ validate_calls' = <<>>
    /\ opc' = "unorphan"
    /\ UNCHANGED <<parents, status, inflight, sweep_i, reval_roots, queued_hashes>>

\* one iteration of the while loop of unorphan_blocks
unorphan_step ==
    /\ UNCHANGED outside_orphans
    /\ opc \in {"unorphan", "reval_unorphan"}
    /\ process_queue # <<>>
    /\ LET orphan_hash == Head(process_queue)
           rest == Tail(process_queue)
       IN  IF /\ contains_key(orphans, orphan_hash)
              /\ unorphan_processable(orphan_hash, Range(processing), status)
           THEN LET left == swap_remove(orphans, orphan_hash)
                IN  /\ orphans' = left
                    /\ children' = drop_children(children, left)
                    /\ inflight' = inflight \cup {orphan_hash}
                    /\ validate_calls' = Append(validate_calls, orphan_hash)
                    /\ processing' = Append(processing, orphan_hash)
                    /\ process_queue' \in enqueue_chunk(rest, children[orphan_hash])
           ELSE /\ process_queue' = rest
                /\ UNCHANGED <<orphans, children, inflight, processing, validate_calls>>
    /\ UNCHANGED <<parents, status, opc, root, sweep_i, reval_roots, queued_hashes, call>>

\* the queue is empty: unorphan_blocks returns to its caller
unorphan_return ==
    /\ UNCHANGED outside_orphans
    /\ opc = "unorphan"
    /\ process_queue = <<>>
    /\ call' = [call EXCEPT !.blocks = processing]
    /\ opc' = "done"
    /\ UNCHANGED <<parents, status, inflight, orphans, children, root, process_queue,
                   processing, sweep_i, reval_roots, queued_hashes, validate_calls>>

-----------------------------------------------------------------------------
(* revalidate_orphans *)

revalidate_orphans ==
    /\ UNCHANGED outside_orphans
    /\ opc = "idle"
    /\ call' = new_call("revalidate_orphans", 0)
    /\ sweep_i' = 1
    /\ validate_calls' = <<>>
    /\ opc' = "sweep"
    /\ UNCHANGED <<parents, status, inflight, orphans, children, root, process_queue,
                   processing, reval_roots, queued_hashes>>

\* a sweep that moves on after a removal as well
always_advance(i, swap_removed) == i + 1

\* a sweep that stays where it is
never_advance(i, swap_removed) == i

\* the index of the next iteration: after a swap-remove i stays, so that the entry
\* moved into i is visited
next_sweep_index(i, swap_removed) == IF swap_removed THEN i ELSE i + 1

\* one iteration of the first sweep
sweep_step ==
    /\ UNCHANGED outside_orphans
    /\ opc = "sweep"
    /\ sweep_i <= Len(orphans)
    /\ IF is_invalid_or_has_body(status, orphans[sweep_i])
       THEN LET left == swap_remove_index(orphans, sweep_i)
            IN  /\ orphans' = left
                /\ children' = drop_children(children, left)
                /\ sweep_i' = next_sweep_index(sweep_i, TRUE)
       ELSE /\ sweep_i' = next_sweep_index(sweep_i, FALSE)
            /\ UNCHANGED <<orphans, children>>
    /\ UNCHANGED <<parents, status, inflight, opc, root, process_queue, processing,
                   reval_roots, queued_hashes, validate_calls, call>>

\* the processable test of the second sweep for pool entry h
root_processable(orph, st, h) ==
    \A p \in Range(parents[h]) : ~(contains_key(orph, p) \/ is_none_or_header_only(st, p))

\* the first sweep is over: collect the processable roots
collect_roots ==
    /\ UNCHANGED outside_orphans
    /\ opc = "sweep"
    /\ sweep_i > Len(orphans)
    /\ reval_roots' = SelectSeq(orphans, LAMBDA h : root_processable(orphans, status, h))
    /\ queued_hashes' = <<>>
    /\ opc' = "reval"
    /\ UNCHANGED <<parents, status, inflight, orphans, children, root, process_queue,
                   processing, sweep_i, validate_calls, call>>

\* one iteration of the loop over the roots, up to the call of unorphan_blocks
process_root ==
    /\ UNCHANGED outside_orphans
    /\ opc = "reval"
    /\ reval_roots # <<>>
    /\ LET r == Head(reval_roots)
       IN  /\ inflight' = inflight \cup {r}
           /\ validate_calls' = Append(validate_calls, r)
           /\ queued_hashes' = Append(queued_hashes, r)
           /\ unorphan_enter(r)
    /\ reval_roots' = Tail(reval_roots)
    /\ opc' = "reval_unorphan"
    /\ UNCHANGED <<parents, status, sweep_i, call>>

\* unorphan_blocks returns into the loop over the roots
reval_unorphan_return ==
    /\ UNCHANGED outside_orphans
    /\ opc = "reval_unorphan"
    /\ process_queue = <<>>
    /\ queued_hashes' = queued_hashes \o processing
    /\ opc' = "reval"
    /\ UNCHANGED <<parents, status, inflight, orphans, children, root, process_queue,
                   processing, sweep_i, reval_roots, validate_calls, call>>

revalidate_return ==
    /\ UNCHANGED outside_orphans
    /\ opc = "reval"
    /\ reval_roots = <<>>
    /\ call' = [call EXCEPT !.blocks = queued_hashes]
    /\ opc' = "done"
    /\ UNCHANGED <<parents, status, inflight, orphans, children, root, process_queue,
                   processing, sweep_i, reval_roots, queued_hashes,
                   validate_calls>>

\* the caller takes the result and the pool is free for the next call. What the
\* call left in flight is from here on the block processor's business: env_block
\* stands for its late processing
call_returned ==
    /\ UNCHANGED outside_orphans
    /\ opc = "done"
    /\ opc' = "idle"
    /\ inflight' = {}
    /\ root' = 0
    /\ process_queue' = <<>>
    /\ processing' = <<>>
    /\ sweep_i' = 1
    /\ queued_hashes' = <<>>
    /\ validate_calls' = <<>>
    /\ call' = NoCall
    /\ UNCHANGED <<parents, status, orphans, children, reval_roots>>

-----------------------------------------------------------------------------
(* Consensus, as the pool sees it *)

\* the block processor gets to an in-flight block; a block is processed only after
\* its parents. A block whose parents all have a body is accepted or found invalid;
\* otherwise it is rejected (missing or invalid parents) and the store is untouched
consensus_process(b, verdict) ==
    /\ UNCHANGED outside_orphans
    /\ b \in inflight
    /\ opc \notin {"idle", "done"}
    /\ \A p \in Range(parents[b]) : p \notin inflight
    /\ inflight' = inflight \ {b}
    /\ IF is_none_or_header_only(status, b) /\ \A p \in Range(parents[b]) : status[p] = "body"
       THEN status' = [status EXCEPT ![b] = verdict]
       ELSE UNCHANGED status
    /\ UNCHANGED <<parents, orphans, children, opc, root, process_queue, processing,
                   sweep_i, reval_roots, queued_hashes,
                   validate_calls, call>>

\* a block arrives at consensus from elsewhere (another peer, IBD) with its body
env_block(b, verdict) ==
    /\ UNCHANGED outside_orphans
    /\ opc = "idle"
    /\ is_none_or_header_only(status, b)
    /\ \A p \in Range(parents[b]) : status[p] = "body"
    /\ status' = [status EXCEPT ![b] = verdict]
    /\ UNCHANGED <<parents, inflight, orphans, children, opc, root, process_queue, processing,
                   sweep_i, reval_roots, queued_hashes,
                   validate_calls, call>>

\* a header arrives without its body (headers-first sync); header validation needs
\* the parents' headers and may find the header invalid
env_header(b, verdict) ==
    /\ UNCHANGED outside_orphans
    /\ opc = "idle"
    /\ status[b] = "none"
    /\ \A p \in Range(parents[b]) : status[p] \in {"header", "body"}
    /\ status' = [status EXCEPT ![b] = verdict]
    /\ UNCHANGED <<parents, inflight, orphans, children, opc, root, process_queue, processing,
                   sweep_i, reval_roots, queued_hashes,
                   validate_calls, call>>

\* the steps of the running handler: an async fn that is polled to its end
pool_handler_step ==
    \/ unorphan_step
    \/ unorphan_return
    \/ sweep_step
    \/ collect_roots
    \/ process_root
    \/ reval_unorphan_return
    \/ revalidate_return

-----------------------------------------------------------------------------
OrphansInit ==
    /\ parents \in {f \in [Blocks -> UNION {ParentChoices(b) : b \in Blocks}] :
                      \A b \in Blocks : f[b] \in ParentChoices(b)}
    /\ status = [h \in Hashes |-> IF h = 0 THEN "body" ELSE "none"]
    /\ inflight = {}
    /\ orphans = <<>>
    /\ children = [h \in Blocks |-> {}]
    /\ opc = "idle"
    /\ root = 0
    /\ process_queue = <<>>
    /\ processing = <<>>
    /\ sweep_i = 1
    /\ reval_roots = <<>>
    /\ queued_hashes = <<>>
    /\ validate_calls = <<>>
    /\ call = NoCall

OrphansNext ==
    \/ \E b \in Blocks, k \in 1..max_orphans : add_orphan(b, k)
    \/ \E h \in Hashes : query_roots(h)
    \/ \E r \in Hashes : unorphan_blocks(r)
    \/ unorphan_step
    \/ unorphan_return
    \/ revalidate_orphans
    \/ sweep_step
    \/ collect_roots
    \/ process_root
    \/ reval_unorphan_return
    \/ revalidate_return
    \/ call_returned
    \/ \E b \in Blocks, v \in {"body", "invalid"} : consensus_process(b, v)
    \/ \E b \in Blocks, v \in {"body", "invalid"} : env_block(b, v)
    \/ \E b \in Blocks, v \in {"header", "invalid"} : env_header(b, v)

-----------------------------------------------------------------------------
(* Semaphore *)

\* number of clients (threads and tasks) that use the semaphore
NumClients == 2

Clients == 1..NumClients

\* bits of usize in the model; Semaphore::MAX_PERMITS is usize::MAX
UsizeBits == 2
UsizeModulus == 2 ^ UsizeBits
MAX_PERMITS == UsizeModulus - 1

\* what a client asks for: a reader 1 permit, a writer MAX_PERMITS
PermitChoices == {1, MAX_PERMITS}

IdleClient == [pc |-> "idle", op |-> "none", permits |-> 0, count |-> 0, held |-> 0, listener |-> FALSE]

\* Event::notify(n): makes sure that at least n active listeners are notified,
\* oldest first
notify(sig, ntf, n) ==
    LET fresh == SelectSeq(sig, LAMBDA c : c \notin ntf)
        need == Min(Max(n - Cardinality(ntf), 0), Len(fresh))
    IN  ntf \cup {fresh[k] : k \in 1..need}

\* a listener leaves the list (taken by wait, or dropped); a notification it
\* holds and did not take is passed on to the next listener
remove_listener(sig, ntf, c, taken) ==
    LET sig2 == SelectSeq(sig, LAMBDA d : d # c)
        ntf2 == ntf \ {c}
    IN  [signal |-> sig2,
         notified |-> IF c \in ntf /\ ~taken THEN notify(sig2, ntf2, 1) ELSE ntf2]

\* a try_acquire that stores the new count without comparing
store_unconditionally(current, expected) == TRUE

\* compare_exchange_weak succeeds only if the counter still holds the count read
compare_exchange(current, expected) == current = expected

\* a fair semaphore: a request also fails while another client is listening
insufficient_or_waiters(count, permits) == count < permits \/ signal # <<>>

\* the early return of try_acquire
insufficient(count, permits) == count < permits

\* a client calls try_acquire, acquire or blocking_acquire
sem_call(c, op, permits) ==
    /\ UNCHANGED outside_semaphore
    /\ client[c].pc = "idle"
    /\ client[c].held = 0
    /\ client' = [client EXCEPT ![c] = [@ EXCEPT !.pc = "load", !.op = op, !.permits = permits]]
    /\ UNCHANGED <<counter, signal, notified>>

\* the outcome of a failed try_acquire, by caller: try_acquire returns None, the
\* loop of acquire and blocking_acquire goes on to its listener
on_none(c) ==
    /\ client' = [client EXCEPT ![c] = IF client[c].op = "try_acquire" THEN IdleClient
                                       ELSE [@ EXCEPT !.pc = "take"]]
    /\ UNCHANGED <<signal, notified>>

\* a loop that listens and waits without trying again
wait_at_once(c) ==
    /\ signal' = IF client[c].listener THEN signal ELSE Append(signal, c)
    /\ client' = [client EXCEPT ![c] = [@ EXCEPT !.pc = "wait", !.listener = TRUE]]
    /\ UNCHANGED notified

\* match listener.take(): None listens and loops, Some(l) waits on l
take_listener(c) ==
    IF ~client[c].listener
    THEN /\ signal' = Append(signal, c)
         /\ client' = [client EXCEPT ![c] = [@ EXCEPT !.pc = "load", !.listener = TRUE]]
         /\ UNCHANGED notified
    ELSE /\ client' = [client EXCEPT ![c] = [@ EXCEPT !.pc = "wait"]]
         /\ UNCHANGED <<signal, notified>>

\* acquire, blocking_acquire: the loop after a failed try_acquire
listener_take(c) ==
    /\ UNCHANGED outside_semaphore
    /\ client[c].pc = "take"
    /\ take_listener(c)
    /\ UNCHANGED counter

\* try_acquire: counter.load, or the retry of the loop with the count the failed
\* exchange returned; count < permits returns None
try_acquire_load(c) ==
    /\ UNCHANGED outside_semaphore
    /\ client[c].pc = "load"
    /\ IF insufficient(counter, client[c].permits)
       THEN on_none(c)
       ELSE /\ client' = [client EXCEPT ![c] = [@ EXCEPT !.pc = "cas", !.count = counter]]
            /\ UNCHANGED <<signal, notified>>
    /\ UNCHANGED counter

\* try_acquire: compare_exchange_weak; it may also fail spuriously
try_acquire_cas(c, spurious) ==
    /\ UNCHANGED outside_semaphore
    /\ client[c].pc = "cas"
    /\ IF compare_exchange(counter, client[c].count) /\ ~spurious
       THEN LET left == remove_listener(signal, notified, c, FALSE)
            IN  /\ counter' = (client[c].count - client[c].permits) % UsizeModulus
                /\ client' = [client EXCEPT ![c] = [IdleClient EXCEPT !.held = client[c].permits]]
                /\ signal' = left.signal
                /\ notified' = left.notified
       ELSE /\ IF insufficient(counter, client[c].permits)
               THEN on_none(c)
               ELSE /\ client' = [client EXCEPT ![c] = [@ EXCEPT !.count = counter]]
                    /\ UNCHANGED <<signal, notified>>
            /\ UNCHANGED counter

\* acquire, blocking_acquire: l.await / l.wait() returns once notified
listener_wait(c) ==
    /\ UNCHANGED outside_semaphore
    /\ client[c].pc = "wait"
    /\ c \in notified
    /\ LET left == remove_listener(signal, notified, c, TRUE)
       IN  /\ signal' = left.signal
           /\ notified' = left.notified
    /\ client' = [client EXCEPT ![c] = [@ EXCEPT !.pc = "load", !.listener = FALSE]]
    /\ UNCHANGED counter

\* a client calls release or blocking_yield with the permits it holds: fetch_add
sem_release(c, op) ==
    /\ UNCHANGED outside_semaphore
    /\ client[c].pc = "idle"
    /\ client[c].held > 0
    /\ counter' = (counter + client[c].held) % UsizeModulus
    /\ client' = [client EXCEPT ![c] = [@ EXCEPT !.pc = "notify", !.op = op,
                                                  !.permits = client[c].held, !.held = 0]]
    /\ UNCHANGED <<signal, notified>>

\* release: signal.notify(permits); blocking_yield goes on to listen
release_notify(c) ==
    /\ UNCHANGED outside_semaphore
    /\ client[c].pc = "notify"
    /\ notified' = notify(signal, notified, client[c].permits)
    /\ IF client[c].op = "release"
       THEN /\ client' = [client EXCEPT ![c] = IdleClient]
            /\ UNCHANGED signal
       ELSE /\ signal' = Append(signal, c)
            /\ client' = [client EXCEPT ![c] = [@ EXCEPT !.pc = "yield_wait", !.listener = TRUE]]
    /\ UNCHANGED counter

\* blocking_yield: wait_timeout returns, notified or timed out, and the listener is
\* dropped; blocking_acquire follows
yield_wait(c) ==
    /\ UNCHANGED outside_semaphore
    /\ client[c].pc = "yield_wait"
    /\ LET left == remove_listener(signal, notified, c, c \in notified)
       IN  /\ signal' = left.signal
           /\ notified' = left.notified
    /\ client' = [client EXCEPT ![c] = [@ EXCEPT !.pc = "load", !.op = "blocking_acquire",
                                                  !.listener = FALSE]]
    /\ UNCHANGED counter

\* the steps of a client inside a call: a thread or task that can run is run
client_step(c) ==
    \/ try_acquire_load(c)
    \/ listener_take(c)
    \/ \E spurious \in BOOLEAN : try_acquire_cas(c, spurious)
    \/ listener_wait(c)
    \/ release_notify(c)
    \/ yield_wait(c)

SemInit ==
    /\ counter = MAX_PERMITS
    /\ signal = <<>>
    /\ notified = {}
    /\ client = [c \in Clients |-> IdleClient]

SemNext ==
    \/ \E c \in Clients, op \in {"try_acquire", "acquire", "blocking_acquire"}, p \in PermitChoices :
          sem_call(c, op, p)
    \/ \E c \in Clients : try_acquire_load(c)
    \/ \E c \in Clients, spurious \in BOOLEAN : try_acquire_cas(c, spurious)
    \/ \E c \in Clients : listener_take(c)
    \/ \E c \in Clients : listener_wait(c)
    \/ \E c \in Clients, op \in {"release", "blocking_yield"} : sem_release(c, op)
    \/ \E c \in Clients : release_notify(c)
    \/ \E c \in Clients : yield_wait(c)

-----------------------------------------------------------------------------
(* Mempool frontier *)

\* number of transactions
NumTxs == 3

\* largest fee of a transaction
MaxFee == 2

\* largest mass of a transaction
MaxMass == 2

\* largest amount asked of sample
MaxAmount == 2

\* keys per leaf of the B+ tree
LeafCap == 2

\* block_template::selector::ALPHA
ALPHA == 3

\* significant bits of a floating point number (52 + 1 in an f64)
MantissaBits == 3

\* the distance between neighbouring floating point numbers at x >= 0
RECURSIVE ulp(_)
ulp(x) == IF x < 2 ^ MantissaBits THEN 1 ELSE 2 * ulp(x \div 2)

\* rounding to the nearest floating point number, ties to the even mantissa
round_abs(x) ==
    LET step == ulp(x)
        low == (x \div step) * step
        rest == x - low
    IN  IF 2 * rest < step THEN low
        ELSE IF 2 * rest > step THEN low + step
        ELSE IF (low \div step) % 2 = 0 THEN low ELSE low + step

round(x) == IF x < 0 THEN 0 - round_abs(0 - x) ELSE round_abs(x)

\* f64 addition and subtraction
f64_add(a, b) == round(a + b)
f64_sub(a, b) == round(a - b)

Txs == 1..NumTxs

\* the masses of the transactions run through 1..MaxMass
TxMass(tx) == 1 + (tx % MaxMass)

\* a common multiple of the masses
RECURSIVE MassMultiple(_)
MassMultiple(m) == IF m <= 1 THEN 1 ELSE m * MassMultiple(m - 1)

\* FeerateTransactionKey::new
new_key(fee, mass, tx) == [fee |-> fee, priority_fee |-> fee, mass |-> mass, tx |-> tx]

\* key.feerate().powi(ALPHA) in units of 1 / (2 * MassMultiple(MaxMass)^ALPHA), rounded as a
\* floating point number.  Queries are taken on the grid of units, finer than
\* the weights, and the arithmetic on a query is exact.
weight_of(key) == round(2 * ((key.priority_fee * (MassMultiple(MaxMass) \div key.mass)) ^ ALPHA))

\* Ord for FeerateTransactionKey: weight, then priority_fee, then transaction id
key_less(a, b) ==
    \/ weight_of(a) < weight_of(b)
    \/ weight_of(a) = weight_of(b) /\ a.priority_fee < b.priority_fee
    \/ weight_of(a) = weight_of(b) /\ a.priority_fee = b.priority_fee /\ a.tx < b.tx

key_equal(a, b) == ~key_less(a, b) /\ ~key_less(b, a)

\* BPlusTreeMap::get(key).is_some()
tree_contains(order, key) == \E k \in 1..Len(order) : key_equal(key_of[order[k]], key)

\* BPlusTreeMap::insert of an absent key: it goes to its place in key order
tree_insert(order, key) ==
    LET below == SelectSeq(order, LAMBDA t : key_less(key_of[t], key))
        above == SelectSeq(order, LAMBDA t : key_less(key, key_of[t]))
    IN  below \o <<key.tx>> \o above

\* BPlusTreeMap::remove
tree_remove(order, key) == SelectSeq(order, LAMBDA t : ~key_equal(key_of[t], key))

new_fcall(op, key, ret) ==
    [op |-> op, key |-> key, ret |-> ret, pre_order |-> feerate_order,
     pre_weight |-> total_weight, pre_mass |-> total_mass]

NoFcall == [op |-> "none", key |-> new_key(0, 1, 0), ret |-> FALSE, pre_order |-> <<>>,
            pre_weight |-> 0, pre_mass |-> 0]

\* Frontier::insert
frontier_insert(key) ==
    /\ UNCHANGED outside_frontier
    /\ fpc = "idle"
    /\ LET inserted == ~tree_contains(feerate_order, key)
       IN  /\ feerate_order' = IF inserted THEN tree_insert(feerate_order, key) ELSE feerate_order
           /\ total_weight' = IF inserted THEN f64_add(total_weight, weight_of(key)) ELSE total_weight
           /\ total_mass' = IF inserted THEN total_mass + key.mass ELSE total_mass
           /\ fcall' = new_fcall("insert", key, inserted)
    /\ UNCHANGED <<key_of, fpc, amount, cuts, cache, sampled>>

\* Frontier::remove
frontier_remove(key) ==
    /\ UNCHANGED outside_frontier
    /\ fpc = "idle"
    /\ LET removed == tree_contains(feerate_order, key)
       IN  /\ feerate_order' = IF removed THEN tree_remove(feerate_order, key) ELSE feerate_order
           /\ total_weight' = IF removed THEN f64_sub(total_weight, weight_of(key)) ELSE total_weight
           /\ total_mass' = IF removed THEN total_mass - key.mass ELSE total_mass
           /\ fcall' = new_fcall("remove", key, removed)
    /\ UNCHANGED <<key_of, fpc, amount, cuts, cache, sampled>>

\* the leaves of the tree: the key order cut after the positions of cts
leaf_start(cts, k) == IF k = 1 THEN 1 ELSE 1 + CHOOSE c \in cts : Cardinality({d \in cts : d <= c}) = k - 1
leaf_end(order, cts, k) ==
    IF k = Cardinality(cts) + 1 THEN Len(order)
    ELSE CHOOSE c \in cts : Cardinality({d \in cts : d <= c}) = k
leaf(order, cts, k) == SubSeq(order, leaf_start(cts, k), leaf_end(order, cts, k))

\* the ways a tree of n keys may be cut into non-empty leaves of at most LeafCap keys
Layouts(order) ==
    {cts \in SUBSET (1..(Len(order) - 1)) :
        \A k \in 1..(Cardinality(cts) + 1) :
            leaf_end(order, cts, k) - leaf_start(cts, k) + 1 <= LeafCap}

\* FeerateWeight::from_leaf: the sum runs from the first key on
RECURSIVE from_leaf(_)
from_leaf(keys) ==
    IF keys = <<>> THEN 0
    ELSE f64_add(from_leaf(SubSeq(keys, 1, Len(keys) - 1)), weight_of(key_of[keys[Len(keys)]]))

\* SearchArgument::locate_in_leaf: the index in the leaf, 0 for None
RECURSIVE locate_in_leaf(_, _, _, _)
locate_in_leaf(query, keys, i, sum) ==
    IF i > Len(keys) THEN 0
    ELSE IF query <= f64_add(sum, weight_of(key_of[keys[i]])) THEN i
    ELSE locate_in_leaf(query, keys, i + 1, f64_add(sum, weight_of(key_of[keys[i]])))

\* SearchArgument::locate_in_inner: [i, query], i = 0 for None
RECURSIVE locate_in_inner(_, _, _)
locate_in_inner(query, arguments, i) ==
    IF i > Len(arguments) THEN [i |-> 0, query |-> query]
    ELSE IF query >= arguments[i] THEN locate_in_inner(query - arguments[i], arguments, i + 1)
    ELSE [i |-> i, query |-> query]

\* BPlusTreeMap::get_by_argument: the transaction id of the key found, 0 for None
get_by_argument(order, cts, query) ==
    IF order = <<>> THEN 0
    ELSE IF cts = {} THEN
        LET i == locate_in_leaf(query, order, 1, 0) IN IF i = 0 THEN 0 ELSE order[i]
    ELSE
        LET arguments == [k \in 1..(Cardinality(cts) + 1) |-> from_leaf(leaf(order, cts, k))]
            at == locate_in_inner(query, arguments, 1)
        IN  IF at.i = 0 THEN 0
            ELSE LET keys == leaf(order, cts, at.i)
                     i == locate_in_leaf(at.query, keys, 1, 0)
                 IN  IF i = 0 THEN 0 ELSE keys[i]

\* Frontier::sample up to the return of the iterator
frontier_sample(n) ==
    /\ UNCHANGED outside_frontier
    /\ fpc = "idle"
    /\ amount' = n
    /\ cache' = {}
    /\ IF Len(feerate_order) <= n
       THEN \* Either::Left: every key, in key order
            /\ sampled' = feerate_order
            /\ cuts' = {}
            /\ fpc' = "done"
       ELSE IF ~(0 < total_weight)
       THEN \* Uniform::new(0f64, total_weight) asserts low < high
            /\ sampled' = <<>>
            /\ cuts' = {}
            /\ fpc' = "panicked"
       ELSE /\ sampled' = <<>>
            /\ cuts' \in Layouts(feerate_order)
            /\ fpc' = IF n = 0 THEN "done" ELSE "sampling"
    /\ UNCHANGED <<key_of, feerate_order, total_weight, total_mass, fcall>>

\* one draw of the iterator of sample: a query in [0, total_weight), the search,
\* and the rejection of a key already seen
sample_draw(query) ==
    /\ UNCHANGED outside_frontier
    /\ fpc = "sampling"
    /\ LET item == get_by_argument(feerate_order, cuts, query)
       IN  IF item = 0
           THEN \* unwrap of None
                /\ fpc' = "panicked"
                /\ UNCHANGED <<cache, sampled>>
           ELSE IF item \in cache
           THEN UNCHANGED <<fpc, cache, sampled>>
           ELSE /\ cache' = cache \cup {item}
                /\ sampled' = Append(sampled, item)
                /\ fpc' = IF Len(sampled) + 1 = amount THEN "done" ELSE "sampling"
    /\ UNCHANGED <<key_of, feerate_order, total_weight, total_mass, fcall, amount, cuts>>

\* the caller is through with the iterator (or with the panic)
sample_dropped ==
    /\ UNCHANGED outside_frontier
    /\ fpc \in {"done", "panicked"}
    /\ fpc' = "idle"
    /\ amount' = 0
    /\ cuts' = {}
    /\ cache' = {}
    /\ sampled' = <<>>
    /\ UNCHANGED <<key_of, feerate_order, total_weight, total_mass, fcall>>

FrontierInit ==
    /\ key_of \in {f \in [Txs -> {new_key(fee, TxMass(tx), tx) : fee \in 0..MaxFee, tx \in Txs}] :
                     \A tx \in Txs : f[tx].tx = tx}
    /\ feerate_order = <<>>
    /\ total_weight = 0
    /\ total_mass = 0
    /\ fpc = "idle"
    /\ fcall = NoFcall
    /\ amount = 0
    /\ cuts = {}
    /\ cache = {}
    /\ sampled = <<>>

FrontierNext ==
    \/ \E tx \in Txs : frontier_insert(key_of[tx])
    \/ \E tx \in Txs : frontier_remove(key_of[tx])
    \/ \E n \in 0..MaxAmount : frontier_sample(n)
    \/ \E query \in 0..(total_weight - 1) : sample_draw(query)
    \/ sample_dropped

FrontierParked ==
    /\ key_of = [tx \in Txs |-> new_key(1, TxMass(tx), tx)]
    /\ feerate_order = <<>>
    /\ total_weight = 0
    /\ total_mass = 0
    /\ fpc = "idle"
    /\ fcall = NoFcall
    /\ amount = 0
    /\ cuts = {}
    /\ cache = {}
    /\ sampled = <<>>

SemParked == SemInit

-----------------------------------------------------------------------------
(* Mining manager: get_block_template *)

\* number of mempool transactions
NumPoolTxs == 3

\* number of distinct miner data values
NumMiners == 2

PoolTxs == 1..NumPoolTxs
Miners == 1..NumMiners

TxErrors == {"MissingTxOutpoints", "OtherTxRuleError"}

NoTemplate == [txs |-> {}, miner_data |-> 0]

\* the sequences of distinct (transaction, error) pairs over the transactions of S
RECURSIVE Citations(_)
Citations(S) ==
    {<<>>} \cup
    UNION {{<<[tx |-> x, err |-> e]>> \o rest : e \in TxErrors, rest \in Citations(S \ {x})} : x \in S}

\* the transactions of the pool that spend an output of x, directly or through others
RECURSIVE redeemers(_, _)
redeemers(pool, x) ==
    LET direct == {y \in pool : x \in spends[y]}
    IN  direct \cup UNION {redeemers(pool \ direct, y) : y \in direct}

\* Mempool::remove_transaction
remove_transaction(pool, x, remove_redeemers) ==
    IF x \notin pool THEN pool
    ELSE IF remove_redeemers THEN pool \ ({x} \cup redeemers(pool, x))
    ELSE pool \ {x}

\* Mempool::block_candidate_transactions: the transactions with no parent in the pool
block_candidate_transactions(pool) == {x \in pool : spends[x] \cap pool = {}}

\* the flag that keeps the redeemers of every cited transaction
keep_redeemers(err) == FALSE

\* the remove_redeemers argument of the removal of a cited transaction
remove_redeemers_on(err) == err # "MissingTxOutpoints"

\* a loop body that removes nothing
remove_none(pool, cited) == pool

\* invalid_transactions.iter().for_each(remove_transaction)
RECURSIVE remove_invalid(_, _)
remove_invalid(pool, cited) ==
    IF cited = <<>> THEN pool
    ELSE remove_invalid(remove_transaction(pool, Head(cited).tx, remove_redeemers_on(Head(cited).err)),
                        Tail(cited))

new_tcall(miner_data) ==
    [miner_data |-> miner_data, step |-> "call", ret |-> "none", template |-> NoTemplate,
     pre_mempool |-> {}, pre_cache |-> NoTemplate, cited |-> <<>>, cited_before |-> {}]

NoTcall == [miner_data |-> 0, step |-> "none", ret |-> "none", template |-> NoTemplate,
            pre_mempool |-> {}, pre_cache |-> NoTemplate, cited |-> <<>>, cited_before |-> {}]

\* a comparison that every miner data passes
any_miner_data(template, miner_data) == TRUE

\* immutable_template.miner_data == *miner_data
same_miner_data(template, miner_data) == template.miner_data = miner_data

\* get_block_template up to the loop: the cache lock is taken and the cached
\* template, when there is one that has not expired, answers the request
get_block_template(miner_data, expired, modify_ok) ==
    /\ UNCHANGED outside_template
    /\ tpc = "idle"
    /\ LET cached == IF expired THEN NoTemplate ELSE template_cache
       IN  /\ template_cache' = cached
           /\ IF cached = NoTemplate
              THEN /\ tpc' = "candidates"
                   /\ tcall' = new_tcall(miner_data)
              ELSE IF same_miner_data(cached, miner_data)
              THEN /\ tpc' = "done"
                   /\ tcall' = [new_tcall(miner_data) EXCEPT !.step = "cached", !.ret = "Ok",
                                                           !.template = cached]
              ELSE IF modify_ok
              THEN /\ tpc' = "done"
                   /\ tcall' = [new_tcall(miner_data) EXCEPT
                                    !.step = "modified", !.ret = "Ok",
                                    !.template = [cached EXCEPT !.miner_data = miner_data]]
              ELSE /\ tpc' = "done"
                   /\ tcall' = [new_tcall(miner_data) EXCEPT !.step = "modified", !.ret = "Err"]
    /\ UNCHANGED <<spends, mempool, gone, transactions, invalid_transactions>>

\* the head of the loop: a fresh candidate set, read under the mempool's read lock
read_candidates ==
    /\ UNCHANGED outside_template
    /\ tpc = "candidates"
    /\ transactions' = block_candidate_transactions(mempool)
    /\ tpc' = "build"
    /\ UNCHANGED <<spends, mempool, gone, template_cache, invalid_transactions, tcall>>

\* build_block_template returns Ok: the template goes to the cache and to the caller
build_ok(selected) ==
    /\ UNCHANGED outside_template
    /\ tpc = "build"
    /\ selected \subseteq transactions
    /\ LET block_template == [txs |-> selected, miner_data |-> tcall.miner_data]
       IN  /\ template_cache' = block_template
           /\ tcall' = [tcall EXCEPT !.step = "built", !.ret = "Ok", !.template = block_template,
                                     !.cited = <<>>, !.pre_mempool = {}]
    /\ tpc' = "done"
    /\ transactions' = {}
    /\ UNCHANGED <<spends, mempool, gone, invalid_transactions>>

\* build_block_template returns InvalidTransactionsInNewBlock
build_invalid(cited) ==
    /\ UNCHANGED outside_template
    /\ tpc = "build"
    /\ cited # <<>>
    /\ \A k \in 1..Len(cited) : cited[k].tx \in transactions
    /\ invalid_transactions' = cited
    /\ tpc' = "remove"
    /\ transactions' = {}
    /\ UNCHANGED <<spends, mempool, gone, template_cache, tcall>>

\* the removal of the cited transactions, under the mempool's write lock
remove_cited ==
    /\ UNCHANGED outside_template
    /\ tpc = "remove"
    /\ mempool' = remove_invalid(mempool, invalid_transactions)
    /\ gone' = gone \cup (mempool \ mempool')
    /\ tcall' = [tcall EXCEPT !.step = "removed", !.cited = invalid_transactions,
                              !.pre_mempool = mempool, !.pre_cache = template_cache]
    /\ invalid_transactions' = <<>>
    /\ tpc' = "removed"
    /\ UNCHANGED <<spends, template_cache, transactions>>

\* the end of a round that removed transactions: the loop goes round again
retry ==
    /\ UNCHANGED outside_template
    /\ tpc = "removed"
    /\ tpc' = "candidates"
    /\ tcall' = [new_tcall(tcall.miner_data) EXCEPT
                    !.cited_before = tcall.cited_before \cup {tcall.cited[k].tx : k \in 1..Len(tcall.cited)}]
    /\ UNCHANGED <<spends, mempool, gone, template_cache, transactions, invalid_transactions>>

\* build_block_template returns any other error
build_error ==
    /\ UNCHANGED outside_template
    /\ tpc = "build"
    /\ tcall' = [tcall EXCEPT !.step = "failed", !.ret = "Err", !.cited = <<>>,
                              !.pre_mempool = mempool, !.pre_cache = template_cache]
    /\ tpc' = "done"
    /\ transactions' = {}
    /\ UNCHANGED <<spends, mempool, gone, template_cache, invalid_transactions>>

\* the caller has its result
template_returned ==
    /\ UNCHANGED outside_template
    /\ tpc = "done"
    /\ tpc' = "idle"
    /\ tcall' = NoTcall
    /\ UNCHANGED <<spends, mempool, gone, template_cache, transactions, invalid_transactions>>

\* MiningManager::clear_block_template
clear_block_template ==
    /\ UNCHANGED outside_template
    /\ tpc = "idle"
    /\ template_cache' = NoTemplate
    /\ UNCHANGED <<spends, mempool, gone, tpc, transactions, invalid_transactions, tcall>>

\* another thread of the manager puts a transaction into the mempool: one that
\* was not there before, all of whose inputs are outputs of the pool or of
\* transactions that have been in it
mempool_insert(x) ==
    /\ UNCHANGED outside_template
    /\ tpc \notin {"removed", "done"}
    /\ x \notin mempool \cup gone
    /\ spends[x] \subseteq mempool \cup gone
    /\ mempool' = mempool \cup {x}
    /\ UNCHANGED <<spends, gone, template_cache, tpc, transactions, invalid_transactions, tcall>>

\* another thread of the manager takes a transaction accepted by a block out of
\* the mempool; a block accepts a transaction after the ones it spends
mempool_accept(x) ==
    /\ UNCHANGED outside_template
    /\ tpc \notin {"removed", "done"}
    /\ x \in mempool
    /\ spends[x] \cap mempool = {}
    /\ mempool' = mempool \ {x}
    /\ gone' = gone \cup {x}
    /\ UNCHANGED <<spends, template_cache, tpc, transactions, invalid_transactions, tcall>>

TemplateInit ==
    /\ spends \in {f \in [PoolTxs -> SUBSET PoolTxs] : \A x \in PoolTxs : \A y \in f[x] : y < x}
    /\ mempool = {}
    /\ gone = {}
    /\ template_cache = NoTemplate
    /\ tpc = "idle"
    /\ transactions = {}
    /\ invalid_transactions = <<>>
    /\ tcall = NoTcall

TemplateNext ==
    \/ \E m \in Miners, expired, modify_ok \in BOOLEAN : get_block_template(m, expired, modify_ok)
    \/ read_candidates
    \/ \E selected \in SUBSET PoolTxs : build_ok(selected)
    \/ \E cited \in Citations(transactions) : build_invalid(cited)
    \/ remove_cited
    \/ retry
    \/ build_error
    \/ template_returned
    \/ clear_block_template
    \/ \E x \in PoolTxs : mempool_insert(x)
    \/ \E x \in PoolTxs : mempool_accept(x)

\* a mempool that other threads have filled, and the transactions that left it
\* before: a transaction leaves after the ones it spends
TemplateQuietInit ==
    /\ spends \in {f \in [PoolTxs -> SUBSET PoolTxs] : \A x \in PoolTxs : \A y \in f[x] : y < x}
    /\ mempool \in {S \in SUBSET PoolTxs : \A x \in PoolTxs \ S : spends[x] \cap S = {}}
    /\ gone = PoolTxs \ mempool
    /\ template_cache = NoTemplate
    /\ tpc = "idle"
    /\ transactions = {}
    /\ invalid_transactions = <<>>
    /\ tcall = NoTcall

\* one call of get_block_template, by the first miner, while no thread inserts
\* into the mempool
TemplateQuietNext ==
    \/ \E expired, modify_ok \in BOOLEAN : get_block_template(1, expired, modify_ok)
    \/ read_candidates
    \/ \E selected \in SUBSET PoolTxs : build_ok(selected)
    \/ \E cited \in Citations(transactions) : build_invalid(cited)
    \/ remove_cited
    \/ retry
    \/ build_error
    \/ \E x \in PoolTxs : mempool_accept(x)

\* the steps of the thread that is inside the loop of get_block_template
template_loop_step ==
    \/ read_candidates
    \/ \E selected \in SUBSET PoolTxs : build_ok(selected)
    \/ \E cited \in Citations(transactions) : build_invalid(cited)
    \/ remove_cited
    \/ retry
    \/ build_error

TemplateParked ==
    /\ spends = [x \in PoolTxs |-> {}]
    /\ mempool = {}
    /\ gone = {}
    /\ template_cache = NoTemplate
    /\ tpc = "idle"
    /\ transactions = {}
    /\ invalid_transactions = <<>>
    /\ tcall = NoTcall

-----------------------------------------------------------------------------
(* Block template builder: modify_block_template *)

\* number of script public keys
NumScripts == 2

\* latest reading of the clock
MaxTime == 2

Scripts == 1..NumScripts
Times == 0..MaxTime

\* the extra data of a miner: two that fit into the coinbase payload, one that does not
ExtraData == {"a", "b", "too_long"}

MinerData == [script_public_key : Scripts, extra_data : ExtraData]

NoPayload == [blue_score |-> 0, subsidy |-> 0, script_public_key |-> 0, extra_data |-> "none"]

\* ConsensusApi::modify_coinbase_payload: the miner data of the payload is replaced,
\* blue score and subsidy stay; miner data that does not fit is an error
modify_coinbase_payload(payload, miner_data) ==
    IF miner_data.extra_data = "too_long"
    THEN [ok |-> FALSE, payload |-> payload]
    ELSE [ok |-> TRUE,
          payload |-> [payload EXCEPT !.script_public_key = miner_data.script_public_key,
                                      !.extra_data = miner_data.extra_data]]

\* calc_hash_merkle_root: a collision-free hash; the transactions hashed stand for it
calc_hash_merkle_root(txs) == txs

\* Header::finalize: the hash of the header's fields
finalize(header) == [header EXCEPT !.hash = <<header.hash_merkle_root, header.timestamp>>]

\* a red reward that is added as one more output
with_added_script(outputs, script) == Append(outputs, script)

\* coinbase_tx.outputs.last_mut().unwrap().script_public_key = ...
with_last_script(outputs, script) == [outputs EXCEPT ![Len(outputs)] = script]

\* a timestamp that follows the clock
now_always(timestamp, now) == now

\* the header's timestamp moves only forward
later_of(timestamp, now) == IF now > timestamp THEN now ELSE timestamp

\* a template as build_block_template makes it for a miner: the coinbase first,
\* paying the miner of a merged blue block and, with a red reward, this miner last
built_template(miner_data, blue_script, has_red_reward, timestamp) ==
    LET coinbase == [payload |-> [blue_score |-> 1, subsidy |-> 1,
                                  script_public_key |-> miner_data.script_public_key,
                                  extra_data |-> miner_data.extra_data],
                     outputs |-> IF has_red_reward
                                 THEN <<blue_script, miner_data.script_public_key>>
                                 ELSE <<blue_script>>]
        txs == <<coinbase, [payload |-> NoPayload, outputs |-> <<blue_script>>]>>
    IN  [block |-> [header |-> finalize([hash_merkle_root |-> calc_hash_merkle_root(txs),
                                         timestamp |-> timestamp, hash |-> <<>>]),
                    transactions |-> txs],
         miner_data |-> miner_data,
         coinbase_has_red_reward |-> has_red_reward]

\* BlockTemplateBuilder::modify_block_template
modify_block_template(block_template_to_modify, new_miner_data, now) ==
    LET coinbase_tx == block_template_to_modify.block.transactions[1]
        new_payload == modify_coinbase_payload(coinbase_tx.payload, new_miner_data)
    IN  IF ~new_payload.ok
        THEN [called |-> TRUE, ok |-> FALSE, now |-> now, template |-> block_template_to_modify]
        ELSE LET outputs == IF block_template_to_modify.coinbase_has_red_reward
                            THEN with_last_script(coinbase_tx.outputs, new_miner_data.script_public_key)
                            ELSE coinbase_tx.outputs
                 txs == [block_template_to_modify.block.transactions EXCEPT
                            ![1] = [payload |-> new_payload.payload, outputs |-> outputs]]
                 header == finalize([block_template_to_modify.block.header EXCEPT
                                        !.hash_merkle_root = calc_hash_merkle_root(txs),
                                        !.timestamp = later_of(@, now)])
             IN  [called |-> TRUE, ok |-> TRUE, now |-> now,
                  template |-> [block_template_to_modify EXCEPT
                                    !.block = [header |-> header, transactions |-> txs],
                                    !.miner_data = new_miner_data]]

NotModified(t) == [called |-> FALSE, ok |-> FALSE, now |-> 0, template |-> t]

ModifyInputs ==
    {[t |-> built_template(m0, 1, red, ts), m1 |-> m1, m2 |-> m2] :
        m0 \in {m \in MinerData : m.extra_data # "too_long"}, red \in BOOLEAN,
        ts \in Times, m1 \in MinerData, m2 \in MinerData}

\* modify_block_template(t, m2)
modify_direct(now) ==
    /\ UNCHANGED outside_modify
    /\ mpc = "start"
    /\ modified' = [modified EXCEPT !.direct = modify_block_template(modify_in.t, modify_in.m2, now)]
    /\ mpc' = "direct"
    /\ UNCHANGED modify_in

\* modify_block_template(t, m1)
modify_once(now) ==
    /\ UNCHANGED outside_modify
    /\ mpc = "direct"
    /\ modified' = [modified EXCEPT !.once = modify_block_template(modify_in.t, modify_in.m1, now)]
    /\ mpc' = IF modified'.once.ok THEN "once" ELSE "done"
    /\ UNCHANGED modify_in

\* modify_block_template(modify_block_template(t, m1), m2)
modify_twice(now) ==
    /\ UNCHANGED outside_modify
    /\ mpc = "once"
    /\ modified' = [modified EXCEPT
                        !.twice = modify_block_template(modified.once.template, modify_in.m2, now)]
    /\ mpc' = "done"
    /\ UNCHANGED modify_in

ModifyInit ==
    /\ modify_in \in ModifyInputs
    /\ modified = [direct |-> NotModified(modify_in.t), once |-> NotModified(modify_in.t),
                   twice |-> NotModified(modify_in.t)]
    /\ mpc = "start"

ModifyNext ==
    \/ \E now \in Times : modify_direct(now)
    \/ \E now \in Times : modify_once(now)
    \/ \E now \in Times : modify_twice(now)

ModifyParked ==
    /\ modify_in = [t |-> built_template([script_public_key |-> 1, extra_data |-> "a"], 1, FALSE, 0),
                    m1 |-> [script_public_key |-> 1, extra_data |-> "a"],
                    m2 |-> [script_public_key |-> 1, extra_data |-> "a"]]
    /\ modified = [direct |-> NotModified(modify_in.t), once |-> NotModified(modify_in.t),
                   twice |-> NotModified(modify_in.t)]
    /\ mpc = "start"

-----------------------------------------------------------------------------
(* Mining manager: revalidate_high_priority_transactions *)

\* results applied under one write lock
TRANSACTION_CHUNK_SIZE == 2

ValidationResults == {"Ok", "RejectMissingOutpoint", "OtherRuleError"}

NotApplied == [transaction_id |-> 0, validation_result |-> "none", in_mempool |-> FALSE]

Elems(seq) == {seq[i] : i \in 1..Len(seq)}

\* a stagger that hands out everything that is left
all_left(txs) == txs

\* TransactionsStagger::stagger: the transactions left that spend no output of a transaction left
independent(txs) == {x \in txs : spends[x] \cap txs = {}}

\* a removal that always takes the redeemers along
with_redeemers_always(validation_result) == TRUE

\* the remove_redeemers argument of the removal after a failed revalidation
with_redeemers(validation_result) == validation_result # "RejectMissingOutpoint"

write_locked == chunk_n > 0

\* revalidate_high_priority_transactions up to the loop: the high priority
\* transactions of the mempool are read; with none of them the call returns
revalidate_high_priority_transactions ==
    /\ UNCHANGED outside_revalidate
    /\ rpc = "idle"
    /\ IF high \cap mempool = {}
       THEN /\ rpc' = "done"
            /\ UNCHANGED <<hp_transactions, batch>>
       ELSE /\ hp_transactions' = high \cap mempool
            /\ batch' = high \cap mempool
            /\ rpc' = "stagger"
    /\ UNCHANGED <<spends, mempool, gone, high, batch_txs, revalidated, applied, chunk_n, valid_ids,
                   sink>>

\* one round of the loop up to the write lock: the next batch is staggered, the
\* transactions still in the mempool and not accepted are kept under the read
\* lock, and the consensus validates them
stagger_batch(accepted) ==
    /\ UNCHANGED outside_revalidate
    /\ rpc = "stagger"
    /\ batch # {}
    /\ independent(batch) # {}
    /\ accepted \subseteq independent(batch) \cap mempool
    /\ batch_txs' = independent(batch)
    /\ batch' = batch \ independent(batch)
    /\ revalidated' = (independent(batch) \cap mempool) \ accepted
    /\ applied' = NotApplied
    /\ rpc' = "apply"
    /\ UNCHANGED <<spends, mempool, gone, high, hp_transactions, chunk_n, valid_ids, sink>>

\* the body of the inner loop, under the write lock: the validation result of
\* the next transaction is applied; the batch comes in any order, and the
\* result is whatever the consensus found
apply_result(transaction_id, validation_result) ==
    /\ UNCHANGED outside_revalidate
    /\ rpc = "apply"
    /\ transaction_id \in revalidated
    /\ chunk_n < TRANSACTION_CHUNK_SIZE
    /\ IF transaction_id \in mempool
       THEN IF validation_result = "Ok"
            THEN /\ valid_ids' = Append(valid_ids, transaction_id)
                 /\ UNCHANGED <<mempool, gone>>
            ELSE /\ mempool' = remove_transaction(mempool, transaction_id,
                                                  with_redeemers(validation_result))
                 /\ gone' = gone \cup (mempool \ mempool')
                 /\ UNCHANGED valid_ids
       ELSE UNCHANGED <<mempool, gone, valid_ids>>
    /\ revalidated' = revalidated \ {transaction_id}
    /\ applied' = [transaction_id |-> transaction_id, validation_result |-> validation_result,
                   in_mempool |-> transaction_id \in mempool]
    /\ chunk_n' = chunk_n + 1
    /\ UNCHANGED <<spends, high, rpc, hp_transactions, batch, batch_txs, sink>>

\* the end of a chunk: the ids that passed are sent, if any, and the write lock is dropped
send_valid_ids ==
    /\ UNCHANGED outside_revalidate
    /\ rpc = "apply"
    /\ chunk_n > 0
    /\ chunk_n = TRANSACTION_CHUNK_SIZE \/ revalidated = {}
    /\ sink' = IF valid_ids # <<>> THEN Append(sink, valid_ids) ELSE sink
    /\ valid_ids' = <<>>
    /\ chunk_n' = 0
    /\ UNCHANGED <<spends, mempool, gone, high, rpc, hp_transactions, batch, batch_txs, revalidated,
                   applied>>

\* the chunks of the batch are through: the loop asks the stagger again
next_batch ==
    /\ UNCHANGED outside_revalidate
    /\ rpc = "apply"
    /\ chunk_n = 0
    /\ revalidated = {}
    /\ rpc' = "stagger"
    /\ batch_txs' = {}
    /\ applied' = NotApplied
    /\ UNCHANGED <<spends, mempool, gone, high, hp_transactions, batch, revalidated, chunk_n,
                   valid_ids, sink>>

\* stagger() returns None: the call returns
revalidate_high_priority_return ==
    /\ UNCHANGED outside_revalidate
    /\ rpc = "stagger"
    /\ batch = {}
    /\ rpc' = "done"
    /\ UNCHANGED <<spends, mempool, gone, high, hp_transactions, batch, batch_txs, revalidated,
                   applied, chunk_n, valid_ids, sink>>

\* another thread takes a transaction accepted by a block out of the mempool
\* while the write lock is free
block_accepts(x) ==
    /\ rpc \in {"stagger", "apply"}
    /\ ~write_locked
    /\ mempool_accept(x)

\* another thread removes a transaction that a block made a double spend,
\* with its redeemers, while the write lock is free
block_conflicts(x) ==
    /\ UNCHANGED outside_revalidate
    /\ rpc \in {"stagger", "apply"}
    /\ ~write_locked
    /\ x \in mempool
    /\ mempool' = remove_transaction(mempool, x, TRUE)
    /\ gone' = gone \cup (mempool \ mempool')
    /\ UNCHANGED <<spends, reval_vars>>

TemplateCallParked ==
    /\ template_cache = NoTemplate
    /\ tpc = "idle"
    /\ transactions = {}
    /\ invalid_transactions = <<>>
    /\ tcall = NoTcall

RevalidateParked ==
    /\ high = {}
    /\ rpc = "idle"
    /\ hp_transactions = {}
    /\ batch = {}
    /\ batch_txs = {}
    /\ revalidated = {}
    /\ applied = NotApplied
    /\ chunk_n = 0
    /\ valid_ids = <<>>
    /\ sink = <<>>

\* a mempool that other threads filled, some of its transactions of high priority
RevalidateInit ==
    /\ spends \in {f \in [PoolTxs -> SUBSET PoolTxs] : \A x \in PoolTxs : \A y \in f[x] : y < x}
    /\ mempool = PoolTxs
    /\ gone = {}
    /\ high \in SUBSET PoolTxs
    /\ rpc = "idle"
    /\ hp_transactions = {}
    /\ batch = {}
    /\ batch_txs = {}
    /\ revalidated = {}
    /\ applied = NotApplied
    /\ chunk_n = 0
    /\ valid_ids = <<>>
    /\ sink = <<>>

RevalidateNext ==
    \/ revalidate_high_priority_transactions
    \/ \E accepted \in SUBSET PoolTxs : stagger_batch(accepted)
    \/ \E x \in PoolTxs, validation_result \in ValidationResults : apply_result(x, validation_result)
    \/ send_valid_ids
    \/ next_batch
    \/ revalidate_high_priority_return
    \/ \E x \in PoolTxs : block_accepts(x)
    \/ \E x \in PoolTxs : block_conflicts(x)

-----------------------------------------------------------------------------
(* Database cache *)

\* number of keys
NumKeys == 3

\* largest estimate_mem_size of an entry
MaxDataSize == 2

\* largest max_size of a policy
MaxCacheSize == 2

CacheKeys == 1..NumKeys
DataSizes == 1..MaxDataSize

CachePolicy == [kind : {"Unit", "Tracked"}, max_size : 0..MaxCacheSize]

map_keys(map) == {map[i].key : i \in 1..Len(map)}

map_index(map, key) == CHOOSE i \in 1..Len(map) : map[i].key = key

\* IndexMap::insert: a known key keeps its place and gets the new data
map_insert(map, key, data) ==
    IF key \in map_keys(map)
    THEN [map EXCEPT ![map_index(map, key)] = [key |-> key, data |-> data]]
    ELSE Append(map, [key |-> key, data |-> data])

\* a Unit cache that never finds itself full
never_full(len, max_size) == FALSE

\* inner.map.len() == max_size
is_full(len, max_size) == len = max_size

\* while inner.tracked_size > max_size { swap_remove_index(random) }: every way the loop
\* can end; gen_range panics on the empty range 0..0
RECURSIVE evict_while_over(_, _, _)
evict_while_over(in, max_size, evicted) ==
    IF in.tracked_size <= max_size THEN {[inner |-> in, evicted |-> evicted, panicked |-> FALSE]}
    ELSE IF in.map = <<>> THEN {[inner |-> in, evicted |-> evicted, panicked |-> TRUE]}
    ELSE UNION {evict_while_over([map |-> swap_remove_index(in.map, i),
                                  tracked_size |-> in.tracked_size - in.map[i].data],
                                 max_size, evicted + 1) : i \in 1..Len(in.map)}

\* an insert that takes every key for a new one
nothing_removed(map, key) == 0

\* if let Some(removed) = inner.map.insert(key, data): the size of the data replaced
removed_size(map, key) == IF key \in map_keys(map) THEN map[map_index(map, key)].data ELSE 0

\* Cache::insert_impl: every result the random choices allow
insert_impl(in, key, data) ==
    IF policy.kind = "Unit"
    THEN IF is_full(Len(in.map), policy.max_size)
         THEN {[inner |-> [in EXCEPT !.map = map_insert(swap_remove_index(in.map, i), key, data)],
                evicted |-> 1, panicked |-> FALSE] : i \in 1..policy.max_size}
         ELSE {[inner |-> [in EXCEPT !.map = map_insert(in.map, key, data)], evicted |-> 0,
                panicked |-> FALSE]}
    ELSE LET removed == removed_size(in.map, key)
         IN  evict_while_over([map |-> map_insert(in.map, key, data),
                               tracked_size |-> in.tracked_size + data - removed],
                              policy.max_size, 0)

\* Cache::update_if_entry_exists_impl, op leaving the data at new_size
update_if_entry_exists_impl(in, key, new_size) ==
    IF key \notin map_keys(in.map) THEN {[inner |-> in, evicted |-> 0, panicked |-> FALSE]}
    ELSE LET i == map_index(in.map, key)
         IN  IF policy.kind = "Unit"
             THEN {[inner |-> [in EXCEPT !.map[i].data = new_size], evicted |-> 0,
                    panicked |-> FALSE]}
             ELSE evict_while_over([map |-> [in.map EXCEPT ![i].data = new_size],
                                    tracked_size |-> in.tracked_size - in.map[i].data + new_size],
                                   policy.max_size, 0)

\* Cache::remove_impl
remove_impl(in, key) ==
    IF key \notin map_keys(in.map) THEN in
    ELSE [map |-> swap_remove_index(in.map, map_index(in.map, key)),
          tracked_size |-> IF policy.kind = "Tracked"
                           THEN in.tracked_size - in.map[map_index(in.map, key)].data
                           ELSE in.tracked_size]

Op(op, evicted) == [op |-> op, evicted |-> evicted]

\* what a call that ran insert_impl or update_if_entry_exists_impl leaves behind
op_result(op, r) == Op(IF r.panicked THEN "panic" ELSE op, r.evicted)

\* Cache::insert
cache_insert(key, data) ==
    /\ UNCHANGED outside_cache
    /\ write_guard = "none"
    /\ IF policy.max_size = 0
       THEN /\ last_op' = Op("insert", 0)
            /\ UNCHANGED inner
       ELSE \E r \in insert_impl(inner, key, data) :
                /\ inner' = r.inner
                /\ last_op' = op_result("insert", r)
    /\ UNCHANGED <<policy, write_guard>>

\* Cache::insert_many up to the loop: the write lock is taken
insert_many ==
    /\ UNCHANGED outside_cache
    /\ write_guard = "none"
    /\ IF policy.max_size = 0
       THEN UNCHANGED write_guard
       ELSE write_guard' = "insert_many"
    /\ last_op' = Op("insert_many", 0)
    /\ UNCHANGED <<policy, inner>>

\* Cache::insert_many, one round of the loop
insert_many_next(key, data) ==
    /\ UNCHANGED outside_cache
    /\ write_guard = "insert_many"
    /\ \E r \in insert_impl(inner, key, data) :
            /\ inner' = r.inner
            /\ last_op' = op_result("insert_many", r)
    /\ UNCHANGED <<policy, write_guard>>

\* Cache::insert_many: the iterator is through and the lock is dropped
insert_many_return ==
    /\ UNCHANGED outside_cache
    /\ write_guard = "insert_many"
    /\ write_guard' = "none"
    /\ UNCHANGED <<policy, inner, last_op>>

\* Cache::update_if_entry_exists
update_if_entry_exists(key, new_size) ==
    /\ UNCHANGED outside_cache
    /\ write_guard = "none"
    /\ IF policy.max_size = 0
       THEN /\ last_op' = Op("update_if_entry_exists", 0)
            /\ UNCHANGED inner
       ELSE \E r \in update_if_entry_exists_impl(inner, key, new_size) :
                /\ inner' = r.inner
                /\ last_op' = op_result("update_if_entry_exists", r)
    /\ UNCHANGED <<policy, write_guard>>

\* Cache::remove
cache_remove(key) ==
    /\ UNCHANGED outside_cache
    /\ write_guard = "none"
    /\ inner' = IF policy.max_size = 0 THEN inner ELSE remove_impl(inner, key)
    /\ last_op' = Op("remove", 0)
    /\ UNCHANGED <<policy, write_guard>>

\* Cache::remove_many
remove_many(key_iter) ==
    /\ UNCHANGED outside_cache
    /\ write_guard = "none"
    /\ inner' = IF policy.max_size = 0 THEN inner
                ELSE remove_impl(remove_impl(inner, key_iter[1]), key_iter[2])
    /\ last_op' = Op("remove_many", 0)
    /\ UNCHANGED <<policy, write_guard>>

\* Cache::remove_all
remove_all ==
    /\ UNCHANGED outside_cache
    /\ write_guard = "none"
    /\ inner' = IF policy.max_size = 0 THEN inner
                ELSE [map |-> <<>>,
                      tracked_size |-> IF policy.kind = "Tracked" THEN 0 ELSE inner.tracked_size]
    /\ last_op' = Op("remove_all", 0)
    /\ UNCHANGED <<policy, write_guard>>

\* Cache::new
CacheInit ==
    /\ policy \in CachePolicy
    /\ inner = [map |-> <<>>, tracked_size |-> 0]
    /\ write_guard = "none"
    /\ last_op = Op("new", 0)

CacheNext ==
    \/ \E key \in CacheKeys, data \in DataSizes : cache_insert(key, data)
    \/ insert_many
    \/ \E key \in CacheKeys, data \in DataSizes : insert_many_next(key, data)
    \/ insert_many_return
    \/ \E key \in CacheKeys, new_size \in DataSizes : update_if_entry_exists(key, new_size)
    \/ \E key \in CacheKeys : cache_remove(key)
    \/ \E key_iter \in CacheKeys \X CacheKeys : remove_many(key_iter)
    \/ remove_all

CacheParked ==
    /\ policy = [kind |-> "Unit", max_size |-> 0]
    /\ inner = [map |-> <<>>, tracked_size |-> 0]
    /\ write_guard = "none"
    /\ last_op = Op("new", 0)

-----------------------------------------------------------------------------
(* Difficulty: calc_average_target *)

\* width of Uint256, scaled down
UintBits == 4

\* largest number of blocks in a window
WindowSize == 3

\* width of the window length (u64, scaled down): the fewest bits that hold WindowSize
LenBits == CHOOSE b \in 1..WindowSize : 2^b > WindowSize /\ 2^(b - 1) <= WindowSize

\* Uint320 is wider than Uint256 by the width of the window length
Uint256MAX == 2^UintBits - 1
Uint320MAX == 2^(UintBits + LenBits) - 1

\* the compact form of a target: a word and the size that places it
CompactBits == [size : 0..(UintBits - 1), word : 0..(2^(UintBits \div 2) - 1)]

\* Uint256::from_compact_target_bits: the word, moved down for the smallest
\* sizes and up for the larger ones
from_compact_target_bits(bits) ==
    IF bits.size <= 1 THEN bits.word \div 2^(1 - bits.size)
    ELSE (bits.word * 2^(bits.size - 1)) % 2^UintBits

\* the sum of unsigned integers of some width: the wrapped value and whether it wrapped
RECURSIVE uint_sum(_, _)
uint_sum(values, uint_max) ==
    IF values = <<>> THEN [value |-> 0, overflow |-> FALSE]
    ELSE LET rest == uint_sum(Tail(values), uint_max)
             total == Head(values) + rest.value
         IN  [value |-> total % (uint_max + 1), overflow |-> rest.overflow \/ total > uint_max]

RECURSIVE seq_min(_)
seq_min(values) ==
    IF Len(values) = 1 THEN values[1] ELSE Min(Head(values), seq_min(Tail(values)))

RECURSIVE seq_max(_)
seq_max(values) ==
    IF Len(values) = 1 THEN values[1] ELSE Max(Head(values), seq_max(Tail(values)))

\* a test that sends every window down the fast path
always_below(spread, targets_len) == TRUE

\* max_target - min_target < Uint256::MAX / targets_len
below_limit(spread, targets_len) == spread < Uint256MAX \div targets_len

\* calc_average_target
calc_average_target(blocks) ==
    LET targets == [i \in 1..Len(blocks) |-> from_compact_target_bits(blocks[i])]
        targets_len == Len(targets)
        min_target == seq_min(targets)
        max_target == seq_max(targets)
    IN  IF below_limit(max_target - min_target, targets_len)
        THEN LET offsets_sum == uint_sum([i \in 1..targets_len |-> targets[i] - min_target], Uint256MAX)
                 result == min_target + offsets_sum.value \div targets_len
             IN  [value |-> result % 2^UintBits, fast |-> TRUE,
                  overflow |-> offsets_sum.overflow \/ result > Uint256MAX]
        ELSE LET targets_sum == uint_sum(targets, Uint320MAX)
             IN  [value |-> targets_sum.value \div targets_len, fast |-> FALSE,
                  overflow |-> targets_sum.overflow]

\* calc_average_target_unoptimized
calc_average_target_unoptimized(blocks) ==
    LET targets_sum == uint_sum([i \in 1..Len(blocks) |-> from_compact_target_bits(blocks[i])],
                                Uint320MAX)
    IN  [value |-> targets_sum.value \div Len(blocks), fast |-> FALSE, overflow |-> targets_sum.overflow]

NotCalculated == [value |-> 0, fast |-> FALSE, overflow |-> FALSE]

NoAverage == [called |-> FALSE, optimized |-> NotCalculated, unoptimized |-> NotCalculated]

\* both functions are called on the window
calc_averages ==
    /\ UNCHANGED outside_difficulty
    /\ ~average.called
    /\ average' = [called |-> TRUE,
                   optimized |-> calc_average_target(difficulty_blocks),
                   unoptimized |-> calc_average_target_unoptimized(difficulty_blocks)]
    /\ UNCHANGED difficulty_blocks

DifficultyInit ==
    /\ difficulty_blocks \in UNION {[1..n -> CompactBits] : n \in 1..WindowSize}
    /\ average = NoAverage

DifficultyNext == calc_averages

DifficultyParked ==
    /\ difficulty_blocks = <<[size |-> 0, word |-> 0]>>
    /\ average = NoAverage

-----------------------------------------------------------------------------
(* Reachability: the store and the test builders *)

\* number of blocks the builders add
NumReachBlocks == 5

\* largest end of the interval of ORIGIN
Capacity == 8

\* chain distance at which the reindex root advances
reindex_depth == 2

\* room left to the siblings of a new reindex root
reindex_slack == 1

ORIGIN == 0
ReachBlocks == 1..NumReachBlocks

\* the elements of a set of blocks in ascending order
RECURSIVE SetToSeq(_)
SetToSeq(S) ==
    IF S = {} THEN <<>>
    ELSE LET least == CHOOSE x \in S : \A y \in S : x <= y
         IN  <<least>> \o SetToSeq(S \ {least})

Interval(start, end) == [start |-> start, end |-> end]

interval_size(interval) == interval.end - interval.start + 1

\* Interval::is_empty
is_empty(interval) == interval_size(interval) <= 0

\* Interval::contains
contains(interval, other) == interval.start <= other.start /\ other.end <= interval.end

\* Interval::strictly_contains
strictly_contains(interval, other) == interval.start <= other.start /\ other.end < interval.end

\* the left half of an interval, the larger one when the size is odd
split_half(interval) ==
    Interval(interval.start, interval.start + (interval_size(interval) + 1) \div 2 - 1)

\* children that may use the whole interval of their parent
whole_interval(interval) == interval

\* the part of an interval its children may use: all but its last point
interval_children_capacity(interval) == Interval(interval.start, interval.end - 1)

\* the capacity of a block that no child uses yet: what follows its last child
interval_remaining_after(st, block) ==
    LET block_children == st[block].children
        capacity == interval_children_capacity(st[block].interval)
    IN  IF block_children = <<>> THEN capacity
        ELSE Interval(st[block_children[Len(block_children)]].interval.end + 1, capacity.end)

RECURSIVE subtree_size(_, _)
RECURSIVE subtree_sizes(_, _)
\* the number of blocks in the subtree of a block, the block included
subtree_size(st, block) == 1 + subtree_sizes(st, st[block].children)
subtree_sizes(st, blocks) ==
    IF blocks = <<>> THEN 0 ELSE subtree_size(st, Head(blocks)) + subtree_sizes(st, Tail(blocks))

\* consecutive intervals of the given sizes, the first at start
RECURSIVE consecutive(_, _)
consecutive(start, sizes) ==
    IF sizes = <<>> THEN <<>>
    ELSE <<Interval(start, start + Head(sizes) - 1)>> \o consecutive(start + Head(sizes), Tail(sizes))

\* the store with the blocks of a sequence at the intervals of another
assign(st, blocks, intervals) ==
    [b \in DOMAIN st |->
        IF \E i \in 1..Len(blocks) : blocks[i] = b
        THEN [st[b] EXCEPT !.interval = intervals[CHOOSE i \in 1..Len(blocks) : blocks[i] = b]]
        ELSE st[b]]

RECURSIVE propagate_interval(_, _)
RECURSIVE propagate_intervals(_, _)
\* the children of a block share its capacity in proportion to the sizes of
\* their subtrees, and so on down the subtree
propagate_interval(st, block) ==
    LET block_children == st[block].children
        capacity == interval_children_capacity(st[block].interval)
        total == subtree_sizes(st, block_children)
        slack == interval_size(capacity) - total
        sizes == [i \in 1..Len(block_children) |->
                    subtree_size(st, block_children[i]) + (slack * subtree_size(st, block_children[i])) \div total]
    IN  IF block_children = <<>> THEN st
        ELSE propagate_intervals(assign(st, block_children, consecutive(capacity.start, sizes)), block_children)
propagate_intervals(st, blocks) ==
    IF blocks = <<>> THEN st
    ELSE propagate_intervals(propagate_interval(st, Head(blocks)), Tail(blocks))

\* the walk toward the root from a block out of capacity: the first block
\* whose interval has room for its whole subtree
RECURSIVE reindex_ancestor(_, _)
reindex_ancestor(st, block) ==
    IF interval_size(st[block].interval) >= subtree_size(st, block) \/ block = ORIGIN THEN block
    ELSE reindex_ancestor(st, st[block].parent)

\* the reindex: the intervals below that block are dealt out again
reindex_intervals(st, new_block) == propagate_interval(st, reindex_ancestor(st, new_block))

NewBlock(parent, interval, height) ==
    [parent |-> parent, children |-> <<>>, interval |-> interval, height |-> height,
     future_covering_set |-> <<>>]

\* add_tree_block: the new block gets half of what is left of the capacity of
\* its parent; with nothing left it gets an empty interval and the tree is reindexed
add_tree_block(st, new_block, parent) ==
    LET remaining == interval_remaining_after(st, parent)
        appended == [st EXCEPT ![parent].children = Append(@, new_block)]
        allocated == IF is_empty(remaining) THEN remaining ELSE split_half(remaining)
        inserted == (new_block :> NewBlock(parent, allocated, st[parent].height + 1)) @@ appended
    IN  IF is_empty(remaining) THEN reindex_intervals(inserted, new_block) ELSE inserted

RECURSIVE is_tree_ancestor_of(_, _, _)
\* a walk up the tree from a block to another
is_tree_ancestor_of(st, block, other) ==
    IF other = block THEN TRUE
    ELSE IF other = ORIGIN THEN FALSE
    ELSE is_tree_ancestor_of(st, block, st[other].parent)

\* the reindex root moves to its child above the hint: the siblings of that
\* child keep the room their subtrees need and the slack, packed to the two
\* ends of the capacity of the old root, and the child gets what they give up
concentrate_interval(st, tree_root, chosen) ==
    LET block_children == st[tree_root].children
        capacity == interval_children_capacity(st[tree_root].interval)
        k == CHOOSE i \in 1..Len(block_children) : block_children[i] = chosen
        kept == [i \in 1..Len(block_children) |->
                    Min(interval_size(st[block_children[i]].interval),
                        subtree_size(st, block_children[i]) + reindex_slack)]
        before == SubSeq(kept, 1, k - 1)
        after == SubSeq(kept, k + 1, Len(block_children))
        sum_before == IF k = 1 THEN 0
                      ELSE consecutive(0, before)[k - 1].end + 1
        sum_after == IF k = Len(block_children) THEN 0
                     ELSE consecutive(0, after)[Len(block_children) - k].end + 1
        last_end == st[block_children[Len(block_children)]].interval.end
        sizes == [i \in 1..Len(block_children) |->
                    IF i = k THEN (last_end - capacity.start + 1) - sum_before - sum_after ELSE kept[i]]
        siblings == SelectSeq(block_children, LAMBDA c : c # chosen)
    IN  propagate_intervals(assign(st, block_children, consecutive(capacity.start, sizes)), siblings)

\* try_advancing_reindex_root: with the hint reindex_depth or more below the
\* root on its chain, the root moves to its child above the hint
try_advancing_reindex_root(st, tree_root, hint) ==
    IF is_tree_ancestor_of(st, tree_root, hint) /\ st[hint].height - st[tree_root].height >= reindex_depth
    THEN LET chosen == CHOOSE c \in Range(st[tree_root].children) : is_tree_ancestor_of(st, c, hint)
         IN  [store |-> concentrate_interval(st, tree_root, chosen), root |-> chosen]
    ELSE [store |-> st, root |-> tree_root]

next_block == Cardinality(DOMAIN store)

\* TreeBuilder::add_block
tree_add_block(parent) ==
    /\ UNCHANGED outside_reachability
    /\ next_block \in ReachBlocks
    /\ parent \in DOMAIN store
    /\ LET added == add_tree_block(store, next_block, parent)
           advanced == try_advancing_reindex_root(added, reindex_root, next_block)
       IN  /\ store' = advanced.store
           /\ reindex_root' = advanced.root
           /\ built' = [block |-> next_block,
                        reindexed |-> is_empty(interval_remaining_after(store, parent)),
                        advanced |-> advanced.root # reindex_root]
    /\ UNCHANGED relations

\* is_chain_ancestor_of: the interval of a block contains the interval of the other
is_chain_ancestor_of(st, block, other) == contains(st[block].interval, st[other].interval)

\* the binary search of a future covering set for a start: the entry that
\* starts there, or else the place where such an entry would go
RECURSIVE binary_search(_, _, _, _, _)
binary_search(st, covering, key, lo, hi) ==
    IF lo >= hi THEN [found |-> FALSE, index |-> lo]
    ELSE LET mid == (lo + hi) \div 2
         IN  IF st[covering[mid]].interval.start = key THEN [found |-> TRUE, index |-> mid]
             ELSE IF st[covering[mid]].interval.start < key
             THEN binary_search(st, covering, key, mid + 1, hi)
             ELSE binary_search(st, covering, key, lo, mid)

\* the entry of a future covering set that may cover a block: the last one
\* that starts at or before it, 0 for none
covering_candidate(st, covering, other) ==
    LET at == binary_search(st, covering, st[other].interval.start, 1, Len(covering) + 1)
    IN  IF at.found THEN at.index ELSE at.index - 1

\* is_dag_ancestor_of: a chain ancestor, or a block with a chain ancestor of
\* the other in its future covering set
is_dag_ancestor_of(st, block, other) ==
    \/ is_chain_ancestor_of(st, block, other)
    \/ LET covering == st[block].future_covering_set
           i == covering_candidate(st, covering, other)
       IN  i >= 1 /\ is_chain_ancestor_of(st, covering[i], other)

\* the insertion of a new block into the future covering set of a block: an
\* entry that is a chain ancestor of the new block suppresses it
insert_to_future_covering_set(st, merged_block, new_block) ==
    LET covering == st[merged_block].future_covering_set
        i == covering_candidate(st, covering, new_block)
    IN  IF i >= 1 /\ is_chain_ancestor_of(st, covering[i], new_block) THEN st
        ELSE [st EXCEPT ![merged_block].future_covering_set =
                            SubSeq(covering, 1, i) \o <<new_block>> \o SubSeq(covering, i + 1, Len(covering))]

RECURSIVE insert_to_future_covering_sets(_, _, _)
insert_to_future_covering_sets(st, mergeset, new_block) ==
    IF mergeset = {} THEN st
    ELSE LET m == CHOOSE m \in mergeset : TRUE
         IN  insert_to_future_covering_sets(insert_to_future_covering_set(st, m, new_block),
                                            mergeset \ {m}, new_block)

\* add_block: the tree grows under the selected parent and the new block
\* enters the future covering set of every block of the mergeset
add_block(st, new_block, selected_parent, mergeset) ==
    insert_to_future_covering_sets(add_tree_block(st, new_block, selected_parent), mergeset, new_block)

\* unordered_mergeset_without_selected_parent: the blocks reached from the
\* other parents that are not in the past of the selected parent
RECURSIVE mergeset_from(_, _, _, _, _)
mergeset_from(rel, st, selected_parent, mergeset, queue) ==
    IF queue = <<>> THEN mergeset
    ELSE LET current == Head(queue)
             found == {parent \in Range(rel[current]) :
                          parent \notin mergeset /\ ~is_dag_ancestor_of(st, parent, selected_parent)}
         IN  mergeset_from(rel, st, selected_parent, mergeset \cup found,
                           Tail(queue) \o SetToSeq(found))

unordered_mergeset_without_selected_parent(rel, st, selected_parent, block_parents) ==
    LET others == SelectSeq(block_parents, LAMBDA p : p # selected_parent)
    IN  mergeset_from(rel, st, selected_parent, Range(others), others)

\* parents.iter().max_by_key(height): the last of the parents of the greatest height
max_by_height(st, block_parents) ==
    block_parents[CHOOSE i \in 1..Len(block_parents) :
                /\ \A j \in 1..Len(block_parents) : st[block_parents[j]].height <= st[block_parents[i]].height
                /\ \A j \in (i + 1)..Len(block_parents) : st[block_parents[j]].height < st[block_parents[i]].height]

\* relations that keep the first parent of a block only
relations_insert_first(rel, hash, block_parents) == (hash :> <<block_parents[1]>>) @@ rel

\* self.relations.insert(block.hash, BlockHashes::new(block.parents))
relations_insert(rel, hash, block_parents) == (hash :> block_parents) @@ rel

\* DagBuilder::add_block
dag_add_block(block_parents) ==
    /\ UNCHANGED outside_reachability
    /\ next_block \in ReachBlocks
    /\ block_parents # <<>>
    /\ Range(block_parents) \subseteq DOMAIN store
    /\ LET selected_parent == max_by_height(store, block_parents)
           mergeset == unordered_mergeset_without_selected_parent(relations, store, selected_parent, block_parents)
           added == add_block(store, next_block, selected_parent, mergeset)
           advanced == try_advancing_reindex_root(added, reindex_root, next_block)
       IN  /\ store' = advanced.store
           /\ reindex_root' = advanced.root
           /\ built' = [block |-> next_block,
                        reindexed |-> is_empty(interval_remaining_after(store, selected_parent)),
                        advanced |-> advanced.root # reindex_root]
    /\ relations' = relations_insert(relations, next_block, block_parents)

NotBuilt == [block |-> ORIGIN, reindexed |-> FALSE, advanced |-> FALSE]

\* TreeBuilder::init_with_params: the store holds ORIGIN with a capacity that
\* has room for the blocks to come
ReachInit ==
    /\ \E capacity \in (NumReachBlocks + 1)..Capacity :
            store = (ORIGIN :> NewBlock(ORIGIN, Interval(1, capacity), 0))
    /\ relations = (ORIGIN :> <<>>)
    /\ reindex_root = ORIGIN
    /\ built = NotBuilt

ReachParked ==
    /\ store = (ORIGIN :> NewBlock(ORIGIN, Interval(1, Capacity), 0))
    /\ relations = (ORIGIN :> <<>>)
    /\ reindex_root = ORIGIN
    /\ built = NotBuilt

TreeNext == \E parent \in {ORIGIN} \cup ReachBlocks : tree_add_block(parent)

\* the parents of a new block of the DAG: ORIGIN for the first block, and
\* after it any blocks of the DAG, in ascending order
ParentLists ==
    IF next_block = 1 THEN {<<ORIGIN>>}
    ELSE {SetToSeq(S) : S \in SUBSET (DOMAIN store \ {ORIGIN}) \ {{}}}

DagNext == \E block_parents \in ParentLists : dag_add_block(block_parents)

-----------------------------------------------------------------------------
(* The GHOSTDAG processor: selected parent, mergeset and the k-cluster colouring *)

\* the DAGs explored: genesis and the blocks built on it, and k
NumGhostdagBlocks == 6
ghostdag_k == 2

genesis == ORIGIN + 1

\* work(bits) of a header: a DAG shorter than the difficulty window keeps the bits of
\* genesis, so every header carries the same work
genesis_work == 1

\* past(block): the blocks the relations reach from its parents
RECURSIVE past(_, _)
past(rel, block) == UNION {{p} \cup past(rel, p) : p \in rel[block]}

is_ancestor_of(rel, this, queried) == this = queried \/ this \in past(rel, queried)

in_anticone(rel, x, y) == ~is_ancestor_of(rel, x, y) /\ ~is_ancestor_of(rel, y, x)

GhostdagData(selected_parent, mergeset_blues, mergeset_reds, blue_score, blue_work, sizes) ==
    [selected_parent |-> selected_parent,
     mergeset_blues |-> mergeset_blues,
     mergeset_reds |-> mergeset_reds,
     blue_score |-> blue_score,
     blue_work |-> blue_work,
     blues_anticone_sizes |-> sizes]

genesis_ghostdag_data == GhostdagData(ORIGIN, <<>>, <<>>, 0, 0, <<>>)

\* ascending blue_work, ties broken by the hash
sortable_less(gd, a, b) ==
    \/ gd[a].blue_work < gd[b].blue_work
    \/ gd[a].blue_work = gd[b].blue_work /\ a < b

\* step 1: the parent of highest blue_work, the higher hash on a tie
find_selected_parent(gd, block_parents) ==
    CHOOSE p \in block_parents : \A q \in block_parents : q = p \/ sortable_less(gd, q, p)

\* step 2: past(B) in the anticone of the selected parent
unordered_mergeset(rel, selected_parent, block_parents) ==
    {x \in block_parents \cup UNION {past(rel, p) : p \in block_parents} :
        in_anticone(rel, x, selected_parent)}

\* topological order: ascending blue_work, then the hash
RECURSIVE sorted_blocks(_, _)
sorted_blocks(gd, blocks) ==
    IF blocks = {} THEN <<>>
    ELSE LET least == CHOOSE x \in blocks : \A y \in blocks : y = x \/ sortable_less(gd, x, y)
         IN  <<least>> \o sorted_blocks(gd, blocks \ {least})

ordered_mergeset_without_selected_parent(rel, gd, selected_parent, block_parents) ==
    sorted_blocks(gd, unordered_mergeset(rel, selected_parent, block_parents))

\* the blue set a block sees: its mergeset blues, its selected parent and the blue set of
\* the selected parent
RECURSIVE blue_set(_, _)
blue_set(gd, data) ==
    IF data.selected_parent = ORIGIN THEN {}
    ELSE Elems(data.mergeset_blues) \cup {data.selected_parent}
         \cup blue_set(gd, gd[data.selected_parent])

\* the anticone size kept for a blue: that of the nearest block of the selected chain
\* that recorded one
RECURSIVE blue_anticone_size(_, _, _)
blue_anticone_size(gd, data, block) ==
    IF block \in DOMAIN data.blues_anticone_sizes THEN data.blues_anticone_sizes[block]
    ELSE blue_anticone_size(gd, gd[data.selected_parent], block)

\* an acceptance test that lets every anticone size pass
within_any(anticone_size) == anticone_size >= 0

within_k(anticone_size) == anticone_size <= ghostdag_k

\* step 3: the candidate is blue iff its own anticone among the blues has at most k blocks
\* and every blue of that anticone stays at most k once the candidate is counted
check_blue_candidate(rel, gd, new_block_data, blue_candidate) ==
    LET anticone_blues == {x \in blue_set(gd, new_block_data) : in_anticone(rel, x, blue_candidate)}
        sizes == [x \in anticone_blues |-> blue_anticone_size(gd, new_block_data, x) + 1]
    IN  [blue |-> /\ within_k(Cardinality(anticone_blues))
                  /\ \A x \in anticone_blues : within_k(sizes[x]),
         blue_anticone_size |-> Cardinality(anticone_blues),
         blues_anticone_sizes |-> sizes]

add_blue(data, block, anticone_size, sizes) ==
    [data EXCEPT !.mergeset_blues = Append(@, block),
                 !.blues_anticone_sizes = (block :> anticone_size) @@ sizes @@ @]

add_red(data, block) == [data EXCEPT !.mergeset_reds = Append(@, block)]

\* the colouring of the candidates from the i-th of the ordered mergeset on
RECURSIVE colour_mergeset(_, _, _, _, _)
colour_mergeset(rel, gd, new_block_data, ordered_mergeset, i) ==
    IF i > Len(ordered_mergeset) THEN new_block_data
    ELSE LET blue_candidate == ordered_mergeset[i]
             coloring == check_blue_candidate(rel, gd, new_block_data, blue_candidate)
         IN  colour_mergeset(rel, gd,
                 IF coloring.blue
                 THEN add_blue(new_block_data, blue_candidate, coloring.blue_anticone_size,
                               coloring.blues_anticone_sizes)
                 ELSE add_red(new_block_data, blue_candidate),
                 ordered_mergeset, i + 1)

\* a blue score that leaves the block itself out
blue_score_without_self(selected_parent_score, blues) == selected_parent_score + Len(blues)

\* blue_score = selected_parent.blue_score + |mergeset_blues| + 1
accumulated_blue_score(selected_parent_score, blues) == selected_parent_score + Len(blues) + 1

\* step 5: blue_score and blue_work accumulate over the selected parent
ghostdag(rel, gd, block_parents) ==
    LET selected_parent == find_selected_parent(gd, block_parents)
        ordered_mergeset ==
            ordered_mergeset_without_selected_parent(rel, gd, selected_parent, block_parents)
        coloured == colour_mergeset(rel, gd,
            GhostdagData(selected_parent, <<>>, <<>>, 0, 0, selected_parent :> 0),
            ordered_mergeset, 1)
    IN  [coloured EXCEPT
            !.blue_score = accumulated_blue_score(gd[selected_parent].blue_score,
                                                  coloured.mergeset_blues),
            !.blue_work = gd[selected_parent].blue_work
                          + (Len(coloured.mergeset_blues) + 1) * genesis_work]

next_hash == Cardinality(DOMAIN ghostdag_store) + 1

\* the parents a header may carry: blocks of the DAG none of which is in the past of another
ParentSets ==
    {ps \in SUBSET DOMAIN ghostdag_relations :
        /\ ps # {}
        /\ \A x \in ps : \A y \in ps : x = y \/ in_anticone(ghostdag_relations, x, y)}

\* the processor is given a new block B with parents P
ghostdag_add_block(block_parents) ==
    /\ UNCHANGED outside_ghostdag
    /\ next_hash <= NumGhostdagBlocks
    /\ ghostdag_store' = (next_hash :> ghostdag(ghostdag_relations, ghostdag_store, block_parents))
                          @@ ghostdag_store
    /\ ghostdag_relations' = (next_hash :> block_parents) @@ ghostdag_relations

GhostdagInit ==
    /\ ghostdag_relations = (genesis :> {})
    /\ ghostdag_store = (genesis :> genesis_ghostdag_data)

GhostdagParked ==
    /\ ghostdag_relations = <<>>
    /\ ghostdag_store = <<>>

GhostdagNext ==
    \E block_parents \in ParentSets : ghostdag_add_block(block_parents)

-----------------------------------------------------------------------------
(* Mining manager: next_transaction_chunk_upper_bound and the chunk loop *)

\* BlockTemplateBuilder::max_block_mass
max_block_mass == 4

\* largest calculated mass of a transaction
MaxTxMass == 5

\* longest transaction vector
MaxChunkTxs == 4

TxMasses == 1..MaxTxMass

MassVectors == UNION {[1..n -> TxMasses] : n \in 0..MaxChunkTxs}

NoBound == [some |-> FALSE, bound |-> 0]

SomeBound(n) == [some |-> TRUE, bound |-> n]

NoPosition == [some |-> FALSE, index |-> 0]

\* transactions[lower_bound..].iter().position(..): the relative index of the first
\* transaction with which the mass summed from lower_bound reaches max_block_mass
RECURSIVE position(_, _, _, _)
position(masses, lower, relative_index, mass) ==
    IF lower + relative_index >= Len(masses) THEN NoPosition
    ELSE IF mass + masses[lower + relative_index + 1] >= max_block_mass
    THEN [some |-> TRUE, index |-> relative_index]
    ELSE position(masses, lower, relative_index + 1, mass + masses[lower + relative_index + 1])

\* a relative index taken as it comes
index_as_found(relative_index) == relative_index

\* relative_index.max(1)
at_least_one(relative_index) == IF relative_index < 1 THEN 1 ELSE relative_index

next_transaction_chunk_upper_bound(masses, lower) ==
    IF lower >= Len(masses) THEN NoBound
    ELSE LET found == position(masses, lower, 0, 0)
         IN  IF found.some THEN SomeBound(at_least_one(found.index) + lower)
             ELSE SomeBound(Len(masses))

\* the body of the chunk loop: the transactions from lower_bound up to the
\* upper bound are validated and the loop goes on from the upper bound
validate_chunk ==
    /\ UNCHANGED outside_chunks
    /\ cpc = "loop"
    /\ LET next == next_transaction_chunk_upper_bound(chunk_txs, lower_bound)
       IN  /\ next.some
           /\ validated' = validated \o [i \in 1..(next.bound - lower_bound) |-> lower_bound + i]
           /\ upper_bounds' = Append(upper_bounds, next.bound)
           /\ lower_bound' = next.bound
    /\ UNCHANGED <<chunk_txs, cpc>>

\* next_transaction_chunk_upper_bound returns None: the loop ends
chunks_done ==
    /\ UNCHANGED outside_chunks
    /\ cpc = "loop"
    /\ ~next_transaction_chunk_upper_bound(chunk_txs, lower_bound).some
    /\ cpc' = "done"
    /\ UNCHANGED <<chunk_txs, lower_bound, upper_bounds, validated>>

ChunksParked ==
    /\ chunk_txs = <<>>
    /\ lower_bound = 0
    /\ upper_bounds = <<>>
    /\ validated = <<>>
    /\ cpc = "idle"

\* a vector of transactions whose masses are calculated, about to be validated
ChunksInit ==
    /\ chunk_txs \in MassVectors
    /\ lower_bound = 0
    /\ upper_bounds = <<>>
    /\ validated = <<>>
    /\ cpc = "loop"

ChunksNext ==
    \/ validate_chunk
    \/ chunks_done

-----------------------------------------------------------------------------
(* Mining manager: transactions on their way into the mempool, and the mempool lock *)

Entries == {"validate_and_insert_mutable_transaction", "validate_and_insert_transaction_batch",
            "revalidate_high_priority_transactions"}

OrphanPolicies == {"Allowed", "Forbidden"}

NoResults == [x \in PoolTxs |-> "none"]

Untouched == [x \in PoolTxs |-> "untouched"]

\* one validation result for every transaction of the vector
ResultsFor(txs) ==
    {[x \in PoolTxs |-> IF x \in txs THEN g[x] ELSE "none"] : g \in [txs -> ValidationResults]}

\* the operations done under the read lock, and under the write lock
ReadOps == {"pre_validate", "batch_pre_validate", "transactions", "populate"}

WriteOps == {"post_validate", "unorphaned_insert", "batch_insert", "update"}

\* the calls to the consensus that validate
ValidateOps == {"validate", "unorphaned_validate", "batch_validate", "revalidate"}

\* a guard that stays alive
keep_guard(held, kind) == held

\* RwLock::read, RwLock::write: the guard returned
lock_guard(held, kind) == held \cup {kind}

\* drop(mempool), or the end of the statement or of the scope of the guard
drop_guard(held, kind) == held \ {kind}

\* Mempool::pre_validate_and_populate_transaction: a transaction already in the
\* transaction pool or in the orphan pool is rejected
pre_validated(txs) == {x \in txs : x \notin mempool \cup orphan_pool}

\* an orphan argument passed on as the caller gave it
orphan_as_called == orphan_arg

\* the orphan argument of the post validation of unorphaned transactions
cascade_orphan == "Forbidden"

\* the mempool as the holder of the write lock finds it
mempool_now(accepted) ==
    [pool |-> mempool, orphans |-> orphan_pool, accepted |-> accepted, unorphaned |-> {},
     outcomes |-> post_outcome]

\* Mempool::get_unorphaned_transactions_after_accepted_transaction: the orphans
\* that spend an output of x and have no input missing any more
get_unorphaned_transactions_after_accepted_transaction(pool, orphaned, x) ==
    {o \in orphaned : x \in spends[o] /\ spends[o] \subseteq pool}

\* Mempool::post_validate_and_insert_transaction and, for an accepted transaction,
\* the push to the list and get_unorphaned_transactions_after_accepted_transaction
insert_one(st, x, validation_result, orphan) ==
    IF validation_result = "Ok"
    THEN IF x \in st.pool THEN [st EXCEPT !.outcomes[x] = "None"]
         ELSE LET unorphaned == get_unorphaned_transactions_after_accepted_transaction(
                                    st.pool \cup {x}, st.orphans \ {x}, x)
              IN  [pool |-> st.pool \cup {x},
                   orphans |-> (st.orphans \ {x}) \ unorphaned,
                   accepted |-> Append(st.accepted, x),
                   unorphaned |-> st.unorphaned \cup unorphaned,
                   outcomes |-> [st.outcomes EXCEPT ![x] = "Some"]]
    ELSE IF validation_result = "RejectMissingOutpoint" /\ orphan = "Allowed"
    THEN [st EXCEPT !.orphans = st.orphans \cup {x}, !.outcomes[x] = "None"]
    ELSE [st EXCEPT !.outcomes[x] = "Err"]

\* the flat_map over the vector zipped with its validation results
RECURSIVE insert_all(_, _, _, _)
insert_all(st, txs, results, orphan) ==
    IF txs = <<>> THEN st
    ELSE insert_all(insert_one(st, Head(txs), results[Head(txs)], orphan), Tail(txs), results, orphan)

\* the inner loop of revalidate_high_priority_transactions over one chunk
RECURSIVE update_revalidated(_, _, _)
update_revalidated(pool, txs, results) ==
    IF txs = <<>> THEN pool
    ELSE update_revalidated(
             IF results[Head(txs)] = "Ok" THEN pool
             ELSE remove_transaction(pool, Head(txs), with_redeemers(results[Head(txs)])),
             Tail(txs), results)

\* chunks(TRANSACTION_CHUNK_SIZE): the first chunk of the pairs left
first_chunk(txs) ==
    IF Len(txs) <= TRANSACTION_CHUNK_SIZE THEN txs ELSE SubSeq(txs, 1, TRANSACTION_CHUNK_SIZE)

\* a vector never found empty
never_empty(txs) == FALSE

\* transactions.is_empty()
layer_is_empty(txs) == txs = {}

\* TransactionsStagger::stagger: None when nothing is left, else the
\* transactions left that depend on no transaction left
stagger(left) ==
    IF left = {} THEN [some |-> FALSE, transactions |-> {}]
    ELSE [some |-> TRUE, transactions |-> independent(left)]

\* self.mempool.read(): the operations that pre-validate, populate or list
\* transactions start by taking the read lock
mempool_read ==
    /\ UNCHANGED outside_ingest
    /\ ipc \in ReadOps
    /\ "read" \notin guards
    /\ guards' = lock_guard(guards, "read")
    /\ UNCHANGED <<spends, mempool, gone, orphan_pool, entry, ipc, orphan_arg, call_txs,
                   stagger_left, layer, validation_results, incoming_transactions,
                   accepted_transactions, outcome, unorphaned_log, post_outcome, layers>>

\* self.mempool.write(): the operations that insert, remove or update
\* transactions start by taking the write lock.  A thread that asked for it
\* with its read guard still alive would never get it; the guard is added
\* all the same, so that the state shows both
mempool_write ==
    /\ UNCHANGED outside_ingest
    /\ ipc \in WriteOps
    /\ "write" \notin guards
    /\ guards' = lock_guard(guards, "write")
    /\ UNCHANGED <<spends, mempool, gone, orphan_pool, entry, ipc, orphan_arg, call_txs,
                   stagger_left, layer, validation_results, incoming_transactions,
                   accepted_transactions, outcome, unorphaned_log, post_outcome, layers>>

\* validate_and_insert_mutable_transaction, first statement: the transaction is
\* pre-validated under the read lock, which the end of the statement drops;
\* a rule error is returned to the caller
pre_validate_and_populate_transaction ==
    /\ UNCHANGED outside_ingest
    /\ ipc = "pre_validate"
    /\ "read" \in guards
    /\ IF pre_validated(call_txs) = {}
       THEN /\ outcome' = "Err"
            /\ ipc' = "done"
            /\ UNCHANGED layer
       ELSE /\ layer' = call_txs
            /\ ipc' = "validate"
            /\ UNCHANGED outcome
    /\ guards' = drop_guard(guards, "read")
    /\ UNCHANGED <<spends, mempool, gone, orphan_pool, entry, orphan_arg, call_txs, stagger_left,
                   validation_results, incoming_transactions, accepted_transactions,
                   unorphaned_log, post_outcome, layers>>

\* validate_and_insert_mutable_transaction, second statement: the consensus
\* validates the transaction and finds whatever it finds
validate_mempool_transaction_and_populate(results) ==
    /\ UNCHANGED outside_ingest
    /\ ipc = "validate"
    /\ results \in ResultsFor(layer)
    /\ validation_results' = results
    /\ ipc' = "post_validate"
    /\ UNCHANGED <<spends, mempool, gone, orphan_pool, entry, guards, orphan_arg, call_txs,
                   stagger_left, layer, incoming_transactions, accepted_transactions, outcome,
                   unorphaned_log, post_outcome, layers>>

\* validate_and_insert_mutable_transaction from the write lock on: the
\* transaction is post-validated; accepted, it heads the list and the
\* transactions it unorphaned go to validate_and_insert_unorphaned_transactions;
\* otherwise the call returns, an empty list for Ok(None), the error for Err
mutable_post_validate ==
    /\ UNCHANGED outside_ingest
    /\ ipc = "post_validate"
    /\ "write" \in guards
    /\ LET st == insert_all(mempool_now(<<>>), SetToSeq(layer), validation_results, orphan_arg)
       IN  /\ mempool' = st.pool
           /\ orphan_pool' = st.orphans
           /\ post_outcome' = st.outcomes
           /\ unorphaned_log' = unorphaned_log \cup st.unorphaned
           /\ IF st.accepted # <<>>
              THEN /\ accepted_transactions' = st.accepted
                   /\ incoming_transactions' = st.unorphaned
                   /\ ipc' = "unorphaned_validate"
                   /\ UNCHANGED outcome
              ELSE /\ outcome' = IF \E x \in layer : st.outcomes[x] = "Err" THEN "Err" ELSE "Ok"
                   /\ ipc' = "done"
                   /\ UNCHANGED <<accepted_transactions, incoming_transactions>>
    /\ guards' = drop_guard(guards, "write")
    /\ UNCHANGED <<spends, gone, entry, orphan_arg, call_txs, stagger_left, layer,
                   validation_results, layers>>

\* validate_and_insert_unorphaned_transactions, one round up to the write
\* lock: the incoming transactions are validated by the consensus
unorphaned_validate(results) ==
    /\ UNCHANGED outside_ingest
    /\ ipc = "unorphaned_validate"
    /\ incoming_transactions # {}
    /\ results \in ResultsFor(incoming_transactions)
    /\ layer' = incoming_transactions
    /\ validation_results' = results
    /\ ipc' = "unorphaned_insert"
    /\ UNCHANGED <<spends, mempool, gone, orphan_pool, entry, guards, orphan_arg, call_txs,
                   stagger_left, incoming_transactions, accepted_transactions, outcome,
                   unorphaned_log, post_outcome, layers>>

\* validate_and_insert_unorphaned_transactions, the rest of the round: under
\* the write lock every transaction is post-validated with Orphan::Forbidden,
\* and the transactions the accepted ones unorphan are the next round
unorphaned_insert ==
    /\ UNCHANGED outside_ingest
    /\ ipc = "unorphaned_insert"
    /\ "write" \in guards
    /\ LET st == insert_all(mempool_now(accepted_transactions), SetToSeq(layer), validation_results,
                            cascade_orphan)
       IN  /\ mempool' = st.pool
           /\ orphan_pool' = st.orphans
           /\ post_outcome' = st.outcomes
           /\ unorphaned_log' = unorphaned_log \cup st.unorphaned
           /\ accepted_transactions' = st.accepted
           /\ incoming_transactions' = st.unorphaned
    /\ ipc' = "unorphaned_validate"
    /\ guards' = drop_guard(guards, "write")
    /\ UNCHANGED <<spends, gone, entry, orphan_arg, call_txs, stagger_left, layer,
                   validation_results, outcome, layers>>

\* validate_and_insert_unorphaned_transactions returns when nothing is
\* incoming: validate_and_insert_mutable_transaction returns the list, the
\* batch loop asks the stagger again
unorphaned_return ==
    /\ UNCHANGED outside_ingest
    /\ ipc = "unorphaned_validate"
    /\ incoming_transactions = {}
    /\ IF entry = "validate_and_insert_transaction_batch"
       THEN /\ ipc' = "stagger"
            /\ UNCHANGED outcome
       ELSE /\ ipc' = "done"
            /\ outcome' = "Ok"
    /\ UNCHANGED <<spends, mempool, gone, orphan_pool, entry, guards, orphan_arg, call_txs,
                   stagger_left, layer, validation_results, incoming_transactions,
                   accepted_transactions, unorphaned_log, post_outcome, layers>>

\* the head of the loop over the stagger: a vector that is not empty is the
\* next to go through
stagger_some ==
    /\ UNCHANGED outside_ingest
    /\ ipc = "stagger"
    /\ stagger(stagger_left).some
    /\ ~layer_is_empty(stagger(stagger_left).transactions)
    /\ layer' = stagger(stagger_left).transactions
    /\ stagger_left' = stagger_left \ stagger(stagger_left).transactions
    /\ layers' = Append(layers, stagger(stagger_left).transactions)
    /\ ipc' = IF entry = "validate_and_insert_transaction_batch" THEN "batch_pre_validate"
              ELSE "populate"
    /\ UNCHANGED <<spends, mempool, gone, orphan_pool, entry, guards, orphan_arg, call_txs,
                   validation_results, incoming_transactions, accepted_transactions, outcome,
                   unorphaned_log, post_outcome>>

\* the stagger returned an empty vector: the dependencies are cyclic, panic
stagger_panic ==
    /\ UNCHANGED outside_ingest
    /\ ipc = "stagger"
    /\ stagger(stagger_left).some
    /\ layer_is_empty(stagger(stagger_left).transactions)
    /\ layers' = Append(layers, stagger(stagger_left).transactions)
    /\ outcome' = "panic"
    /\ ipc' = "panicked"
    /\ UNCHANGED <<spends, mempool, gone, orphan_pool, entry, guards, orphan_arg, call_txs,
                   stagger_left, layer, validation_results, incoming_transactions,
                   accepted_transactions, unorphaned_log, post_outcome>>

\* the stagger returned None: the call returns
stagger_none ==
    /\ UNCHANGED outside_ingest
    /\ ipc = "stagger"
    /\ ~stagger(stagger_left).some
    /\ outcome' = "Ok"
    /\ ipc' = "done"
    /\ UNCHANGED <<spends, mempool, gone, orphan_pool, entry, guards, orphan_arg, call_txs,
                   stagger_left, layer, validation_results, incoming_transactions,
                   accepted_transactions, unorphaned_log, post_outcome, layers>>

\* validate_and_insert_transaction_batch, under the read lock: the
\* transactions that fail pre-validation are dropped from the vector
batch_pre_validate ==
    /\ UNCHANGED outside_ingest
    /\ ipc = "batch_pre_validate"
    /\ "read" \in guards
    /\ layer' = pre_validated(layer)
    /\ guards' = drop_guard(guards, "read")
    /\ ipc' = "batch_validate"
    /\ UNCHANGED <<spends, mempool, gone, orphan_pool, entry, orphan_arg, call_txs, stagger_left,
                   validation_results, incoming_transactions, accepted_transactions, outcome,
                   unorphaned_log, post_outcome, layers>>

\* the chunk loop of validate_and_insert_transaction_batch and of
\* revalidate_high_priority_transactions: the consensus validates the vector
validate_mempool_transactions_in_parallel(results) ==
    /\ UNCHANGED outside_ingest
    /\ ipc \in {"batch_validate", "revalidate"}
    /\ results \in ResultsFor(layer)
    /\ validation_results' = results
    /\ ipc' = IF ipc = "batch_validate" THEN "batch_insert"
              ELSE IF layer = {} THEN "stagger" ELSE "update"
    /\ UNCHANGED <<spends, mempool, gone, orphan_pool, entry, guards, orphan_arg, call_txs,
                   stagger_left, layer, incoming_transactions, accepted_transactions, outcome,
                   unorphaned_log, post_outcome, layers>>

\* validate_and_insert_transaction_batch, under the write lock: every
\* transaction of the vector is post-validated, and the transactions the
\* accepted ones unorphan go to validate_and_insert_unorphaned_transactions
batch_insert ==
    /\ UNCHANGED outside_ingest
    /\ ipc = "batch_insert"
    /\ "write" \in guards
    /\ LET st == insert_all(mempool_now(accepted_transactions), SetToSeq(layer), validation_results,
                            orphan_arg)
       IN  /\ mempool' = st.pool
           /\ orphan_pool' = st.orphans
           /\ post_outcome' = st.outcomes
           /\ unorphaned_log' = unorphaned_log \cup st.unorphaned
           /\ accepted_transactions' = st.accepted
           /\ incoming_transactions' = st.unorphaned
    /\ ipc' = "unorphaned_validate"
    /\ guards' = drop_guard(guards, "write")
    /\ UNCHANGED <<spends, gone, entry, orphan_arg, call_txs, stagger_left, layer,
                   validation_results, outcome, layers>>

\* revalidate_high_priority_transactions up to the loop: under the read lock
\* the high priority transactions are listed; with none the call returns
all_transactions_with_priority ==
    /\ UNCHANGED outside_ingest
    /\ ipc = "transactions"
    /\ "read" \in guards
    /\ IF mempool = {}
       THEN /\ outcome' = "Ok"
            /\ ipc' = "done"
            /\ UNCHANGED <<call_txs, stagger_left>>
       ELSE /\ call_txs' = mempool
            /\ stagger_left' = mempool
            /\ ipc' = "stagger"
            /\ UNCHANGED outcome
    /\ guards' = drop_guard(guards, "read")
    /\ UNCHANGED <<spends, mempool, gone, orphan_pool, entry, orphan_arg, layer,
                   validation_results, incoming_transactions, accepted_transactions,
                   unorphaned_log, post_outcome, layers>>

\* revalidate_high_priority_transactions, under the read lock: the
\* transactions of the vector still in the mempool are kept and populated
populate_mempool_entries ==
    /\ UNCHANGED outside_ingest
    /\ ipc = "populate"
    /\ "read" \in guards
    /\ layer' = layer \cap mempool
    /\ guards' = drop_guard(guards, "read")
    /\ ipc' = "revalidate"
    /\ UNCHANGED <<spends, mempool, gone, orphan_pool, entry, orphan_arg, call_txs, stagger_left,
                   validation_results, incoming_transactions, accepted_transactions, outcome,
                   unorphaned_log, post_outcome, layers>>

\* revalidate_high_priority_transactions, one chunk of results under the
\* write lock: a transaction still in the mempool that failed is removed
update_revalidated_chunk ==
    /\ UNCHANGED outside_ingest
    /\ ipc = "update"
    /\ "write" \in guards
    /\ LET chunk == first_chunk(SetToSeq(layer))
       IN  /\ mempool' = update_revalidated(mempool, chunk, validation_results)
           /\ gone' = gone \cup (mempool \ update_revalidated(mempool, chunk, validation_results))
           /\ layer' = layer \ Elems(chunk)
           /\ ipc' = IF layer \ Elems(chunk) = {} THEN "stagger" ELSE "update"
    /\ guards' = drop_guard(guards, "write")
    /\ UNCHANGED <<spends, orphan_pool, entry, orphan_arg, call_txs, stagger_left,
                   validation_results, incoming_transactions, accepted_transactions, outcome,
                   unorphaned_log, post_outcome, layers>>

\* another thread, holding the write lock, removes a transaction that a block
\* made a double spend, with its redeemers; it gets the lock only while the
\* calling thread holds no guard, here while the consensus validates
other_writer(x) ==
    /\ UNCHANGED outside_ingest
    /\ ipc \in ValidateOps
    /\ guards = {}
    /\ x \in mempool
    /\ mempool' = remove_transaction(mempool, x, TRUE)
    /\ gone' = gone \cup (mempool \ remove_transaction(mempool, x, TRUE))
    /\ UNCHANGED <<spends, orphan_pool, entry, ipc, guards, orphan_arg, call_txs, stagger_left,
                   layer, validation_results, incoming_transactions, accepted_transactions,
                   outcome, unorphaned_log, post_outcome, layers>>

IngestParked ==
    /\ orphan_pool = {}
    /\ entry = "none"
    /\ ipc = "idle"
    /\ guards = {}
    /\ orphan_arg = "Forbidden"
    /\ call_txs = {}
    /\ stagger_left = {}
    /\ layer = {}
    /\ validation_results = NoResults
    /\ incoming_transactions = {}
    /\ accepted_transactions = <<>>
    /\ outcome = "none"
    /\ unorphaned_log = {}
    /\ post_outcome = Untouched
    /\ layers = <<>>

\* the dependencies a mempool can hold: a transaction spends outputs of earlier ones
ChainedSpends == {f \in [PoolTxs -> SUBSET PoolTxs] : \A x \in PoolTxs : \A y \in f[x] : y < x}

\* the dependencies a caller can claim for the transactions of a batch: the
\* same, or with one transaction that spends an output of a later one, which
\* closes a cycle when the later one depends on it
ClaimedSpends ==
    ChainedSpends \cup
    {[f EXCEPT ![p[1]] = f[p[1]] \cup {p[2]}] :
        f \in ChainedSpends, p \in {q \in PoolTxs \X PoolTxs : q[1] < q[2]}}

\* a call of one of the three functions: a single transaction arrives at a
\* mempool in which some transactions with a missing parent wait as orphans; a
\* batch arrives at a mempool in which every other transaction with a parent
\* waits as an orphan; or the high priority transactions of a mempool are
\* revalidated
IngestInit ==
    /\ entry \in Entries
    /\ gone = {}
    /\ guards = {}
    /\ layer = {}
    /\ validation_results = NoResults
    /\ incoming_transactions = {}
    /\ accepted_transactions = <<>>
    /\ outcome = "none"
    /\ unorphaned_log = {}
    /\ post_outcome = Untouched
    /\ layers = <<>>
    /\ \/ /\ entry = "validate_and_insert_mutable_transaction"
          /\ spends \in ChainedSpends
          /\ mempool = {}
          /\ orphan_pool \in SUBSET {x \in PoolTxs : spends[x] # {}}
          /\ orphan_arg \in OrphanPolicies
          /\ call_txs \in {{x} : x \in PoolTxs}
          /\ stagger_left = {}
          /\ ipc = "pre_validate"
       \/ /\ entry = "validate_and_insert_transaction_batch"
          /\ spends \in ClaimedSpends
          /\ mempool = {}
          /\ call_txs \in SUBSET PoolTxs
          /\ orphan_pool = {x \in PoolTxs \ call_txs : spends[x] # {}}
          /\ orphan_arg \in OrphanPolicies
          /\ stagger_left = call_txs
          /\ ipc = "stagger"
       \/ /\ entry = "revalidate_high_priority_transactions"
          /\ spends \in ClaimedSpends
          /\ mempool \in {{}, PoolTxs}
          /\ mempool = {} => \A x \in PoolTxs : spends[x] = {}
          /\ orphan_pool = {}
          /\ orphan_arg = "Forbidden"
          /\ call_txs = {}
          /\ stagger_left = {}
          /\ ipc = "transactions"

\* the steps of the calling thread
IngestThread ==
    \/ mempool_read
    \/ mempool_write
    \/ pre_validate_and_populate_transaction
    \/ \E results \in ResultsFor(layer) : validate_mempool_transaction_and_populate(results)
    \/ mutable_post_validate
    \/ \E results \in ResultsFor(incoming_transactions) : unorphaned_validate(results)
    \/ unorphaned_insert
    \/ unorphaned_return
    \/ stagger_some
    \/ stagger_panic
    \/ stagger_none
    \/ batch_pre_validate
    \/ \E results \in ResultsFor(layer) : validate_mempool_transactions_in_parallel(results)
    \/ batch_insert
    \/ all_transactions_with_priority
    \/ populate_mempool_entries
    \/ update_revalidated_chunk

IngestNext ==
    \/ IngestThread
    \/ \E x \in PoolTxs : other_writer(x)

single_call == entry = "validate_and_insert_mutable_transaction"

\* a call of validate_and_insert_mutable_transaction
CascadeInit == IngestInit /\ single_call

\* the steps of a thread that called validate_and_insert_mutable_transaction
CascadeThread ==
    \/ mempool_read
    \/ mempool_write
    \/ pre_validate_and_populate_transaction
    \/ \E results \in ResultsFor(layer) : validate_mempool_transaction_and_populate(results)
    \/ mutable_post_validate
    \/ \E results \in ResultsFor(incoming_transactions) : unorphaned_validate(results)
    \/ unorphaned_insert
    \/ unorphaned_return

CascadeNext ==
    \/ CascadeThread
    \/ \E x \in PoolTxs : other_writer(x)

-----------------------------------------------------------------------------
(* Mempool frontier: FeerateTransactionKey *)

\* largest calculated fee of a mempool transaction
MaxKeyFee == 3

\* the fee floor of a priority key, on the scale of MaxKeyFee
FEERATE_PRIORITY_FEE_CONST == 2

Priorities == {"Low", "High"}

MempoolTransactions ==
    [fee : 0..MaxKeyFee, mass : 1..MaxMass, tx : Txs, priority : Priorities]

NoKey == [fee |-> 0, priority_fee |-> 0, mass |-> 0, tx |-> 0]

\* a priority fee that is the fee itself
fee_as_is(fee) == fee

\* fee.max(FEERATE_PRIORITY_FEE_CONST)
floored_fee(fee) == IF fee >= FEERATE_PRIORITY_FEE_CONST THEN fee ELSE FEERATE_PRIORITY_FEE_CONST

\* FeerateTransactionKey::priority; the weight field is weight_of the key
priority(fee, mass, tx) ==
    [fee |-> fee, priority_fee |-> floored_fee(fee), mass |-> mass, tx |-> tx]

\* FeerateTransactionKey::is_priority
is_priority(key) == key.fee # key.priority_fee

\* FeerateTransactionKey::feerate, in units of 1 / MassMultiple(MaxMass)
feerate(key) == key.priority_fee * (MassMultiple(MaxMass) \div key.mass)

\* Ord::cmp of two keys
cmp(a, b) ==
    IF key_less(a, b) THEN "Less"
    ELSE IF key_less(b, a) THEN "Greater"
    ELSE "Equal"

\* From<&MempoolTransaction> for FeerateTransactionKey
from(mempool_tx) ==
    IF mempool_tx.priority = "Low"
    THEN new_key(mempool_tx.fee, mempool_tx.mass, mempool_tx.tx)
    ELSE priority(mempool_tx.fee, mempool_tx.mass, mempool_tx.tx)

\* the key of one of the mempool transactions is built
build_key(i) ==
    /\ UNCHANGED outside_keys
    /\ keys_built[i] = NoKey
    /\ keys_built' = [keys_built EXCEPT ![i] = from(mempool_txs[i])]
    /\ UNCHANGED <<mempool_txs, ordering>>

\* the two keys are compared
compare_keys ==
    /\ UNCHANGED outside_keys
    /\ \A i \in 1..2 : keys_built[i] # NoKey
    /\ ordering = "none"
    /\ ordering' = cmp(keys_built[1], keys_built[2])
    /\ UNCHANGED <<mempool_txs, keys_built>>

KeysParked ==
    /\ mempool_txs = [i \in 1..2 |-> [fee |-> 1, mass |-> 1, tx |-> 1, priority |-> "Low"]]
    /\ keys_built = [i \in 1..2 |-> NoKey]
    /\ ordering = "none"

KeysInit ==
    /\ mempool_txs \in [1..2 -> MempoolTransactions]
    /\ keys_built = [i \in 1..2 |-> NoKey]
    /\ ordering = "none"

KeysNext ==
    \/ \E i \in 1..2 : build_key(i)
    \/ compare_keys

-----------------------------------------------------------------------------
(* Mining manager: concurrent calls of get_block_template *)

\* number of threads that call get_block_template
NumCallers == 2

Callers == 1..NumCallers

\* a thread that uses the mempool and never calls get_block_template
OtherThread == NumCallers + 1

NoCached == [built_by |-> 0, miner_data |-> 0]

IdleMiner == [pc |-> "idle", miner_data |-> 0, waited_for |-> 0, ret |-> "none",
              template |-> NoCached, built |-> FALSE]

\* a guard that is never released
forget(holder) == holder

\* drop(cache_lock), and the end of the scope of cache_lock at a return
drop(holder) == 0

\* the part of get_block_template that has cache_lock in scope after the cache was read
in_loop(c) == miner[c].pc \in {"read", "reading", "build", "write", "removing"}

\* a thread calls get_block_template; the mutex may be held by another caller
miner_call(c, miner_data) ==
    /\ UNCHANGED outside_miners
    /\ miner[c].pc = "idle"
    /\ miner' = [miner EXCEPT ![c] = [IdleMiner EXCEPT !.pc = "lock", !.miner_data = miner_data,
                                                       !.waited_for = cache_lock]]
    /\ UNCHANGED <<cache_lock, block_template_cache, mempool_rw>>

\* block_template_cache.lock() returns and the cache is read; a template that has
\* expired is not returned. On a hit the lock is dropped at once and a template
\* with the same miner data is returned
lock_cache(c, expired) ==
    /\ UNCHANGED outside_miners
    /\ miner[c].pc = "lock"
    /\ cache_lock = 0
    /\ LET immutable_template == IF expired THEN NoCached ELSE block_template_cache
       IN  /\ block_template_cache' = immutable_template
           /\ IF immutable_template = NoCached
              THEN /\ cache_lock' = c
                   /\ miner' = [miner EXCEPT ![c] = [@ EXCEPT !.pc = "read"]]
              ELSE /\ cache_lock' = drop(c)
                   /\ miner' = [miner EXCEPT ![c] =
                          IF same_miner_data(immutable_template, miner[c].miner_data)
                          THEN [@ EXCEPT !.pc = "done", !.ret = "Ok", !.template = immutable_template]
                          ELSE [@ EXCEPT !.pc = "modify", !.template = immutable_template]]
    /\ UNCHANGED mempool_rw

\* modify_block_template on the template found, and the return
modify_template(c, modify_ok) ==
    /\ UNCHANGED outside_miners
    /\ miner[c].pc = "modify"
    /\ miner' = [miner EXCEPT ![c] =
           IF modify_ok
           THEN [@ EXCEPT !.pc = "done", !.ret = "Ok", !.template.miner_data = miner[c].miner_data]
           ELSE [@ EXCEPT !.pc = "done", !.ret = "Err", !.template = NoCached]]
    /\ UNCHANGED <<cache_lock, block_template_cache, mempool_rw>>

\* block_candidate_transactions: self.mempool.read()
candidates_lock(c) ==
    /\ UNCHANGED outside_miners
    /\ miner[c].pc = "read"
    /\ mempool_rw.write = {}
    /\ mempool_rw' = [mempool_rw EXCEPT !.read = @ \cup {c}]
    /\ miner' = [miner EXCEPT ![c] = [@ EXCEPT !.pc = "reading"]]
    /\ UNCHANGED <<cache_lock, block_template_cache>>

\* block_candidate_transactions returns and the read guard goes
candidates_unlock(c) ==
    /\ UNCHANGED outside_miners
    /\ miner[c].pc = "reading"
    /\ mempool_rw' = [mempool_rw EXCEPT !.read = @ \ {c}]
    /\ miner' = [miner EXCEPT ![c] = [@ EXCEPT !.pc = "build"]]
    /\ UNCHANGED <<cache_lock, block_template_cache>>

\* build_block_template returns: Ok stores the template and returns it, invalid
\* transactions go on to the removal, any other error is returned
build(c, result) ==
    /\ UNCHANGED outside_miners
    /\ miner[c].pc = "build"
    /\ IF result = "Ok"
       THEN LET block_template == [built_by |-> c, miner_data |-> miner[c].miner_data]
            IN  /\ block_template_cache' = block_template
                /\ cache_lock' = drop(cache_lock)
                /\ miner' = [miner EXCEPT ![c] = [@ EXCEPT !.pc = "done", !.ret = "Ok",
                                                         !.template = block_template, !.built = TRUE]]
       ELSE IF result = "InvalidTransactionsInNewBlock"
       THEN /\ miner' = [miner EXCEPT ![c] = [@ EXCEPT !.pc = "write"]]
            /\ UNCHANGED <<cache_lock, block_template_cache>>
       ELSE /\ cache_lock' = drop(cache_lock)
            /\ miner' = [miner EXCEPT ![c] = [@ EXCEPT !.pc = "done", !.ret = "Err"]]
            /\ UNCHANGED block_template_cache
    /\ UNCHANGED mempool_rw

\* let mut mempool_write = self.mempool.write()
remove_lock(c) ==
    /\ UNCHANGED outside_miners
    /\ miner[c].pc = "write"
    /\ mempool_rw = [read |-> {}, write |-> {}]
    /\ mempool_rw' = [mempool_rw EXCEPT !.write = {c}]
    /\ miner' = [miner EXCEPT ![c] = [@ EXCEPT !.pc = "removing"]]
    /\ UNCHANGED <<cache_lock, block_template_cache>>

\* the invalid transactions are removed, the write guard goes and the loop starts again
remove_unlock(c) ==
    /\ UNCHANGED outside_miners
    /\ miner[c].pc = "removing"
    /\ mempool_rw' = [mempool_rw EXCEPT !.write = {}]
    /\ miner' = [miner EXCEPT ![c] = [@ EXCEPT !.pc = "read"]]
    /\ UNCHANGED <<cache_lock, block_template_cache>>

\* the caller has its result
miner_return(c) ==
    /\ UNCHANGED outside_miners
    /\ miner[c].pc = "done"
    /\ miner' = [miner EXCEPT ![c] = IdleMiner]
    /\ UNCHANGED <<cache_lock, block_template_cache, mempool_rw>>

\* clear_block_template: self.block_template_cache.lock().clear()
clear_cache ==
    /\ UNCHANGED outside_miners
    /\ cache_lock = 0
    /\ block_template_cache' = NoCached
    /\ UNCHANGED <<cache_lock, miner, mempool_rw>>

\* another thread takes the mempool lock for an operation of its own
other_lock(mode) ==
    /\ UNCHANGED outside_miners
    /\ OtherThread \notin mempool_rw.read \cup mempool_rw.write
    /\ mempool_rw.write = {}
    /\ mode = "write" => mempool_rw.read = {}
    /\ mempool_rw' = [mempool_rw EXCEPT ![mode] = @ \cup {OtherThread}]
    /\ UNCHANGED <<cache_lock, block_template_cache, miner>>

\* and lets it go
other_unlock ==
    /\ UNCHANGED outside_miners
    /\ OtherThread \in mempool_rw.read \cup mempool_rw.write
    /\ mempool_rw' = [read |-> mempool_rw.read \ {OtherThread}, write |-> mempool_rw.write \ {OtherThread}]
    /\ UNCHANGED <<cache_lock, block_template_cache, miner>>

MinersParked ==
    /\ cache_lock = 0
    /\ block_template_cache = NoCached
    /\ miner = [c \in Callers |-> IdleMiner]
    /\ mempool_rw = [read |-> {}, write |-> {}]

MinersInit == MinersParked

MinersNext ==
    \/ \E c \in Callers, miner_data \in Miners : miner_call(c, miner_data)
    \/ \E c \in Callers, expired \in BOOLEAN : lock_cache(c, expired)
    \/ \E c \in Callers, modify_ok \in BOOLEAN : modify_template(c, modify_ok)
    \/ \E c \in Callers : candidates_lock(c)
    \/ \E c \in Callers : candidates_unlock(c)
    \/ \E c \in Callers, result \in {"Ok", "InvalidTransactionsInNewBlock", "Err"} : build(c, result)
    \/ \E c \in Callers : remove_lock(c)
    \/ \E c \in Callers : remove_unlock(c)
    \/ \E c \in Callers : miner_return(c)
    \/ clear_cache
    \/ \E mode \in {"read", "write"} : other_lock(mode)
    \/ other_unlock

-----------------------------------------------------------------------------
(* Specifications: one part runs, the others stay as constructed *)

vars == <<orphan_vars, sem_vars, frontier_vars, template_vars, modify_vars, reval_vars, cache_vars, difficulty_vars, reach_vars, ghostdag_vars, chunk_vars, ingest_vars, key_vars, miner_vars>>

OrphansParked ==
    /\ parents = [b \in Blocks |-> <<b - 1>>]
    /\ status = [h \in Hashes |-> IF h = 0 THEN "body" ELSE "none"]
    /\ inflight = {}
    /\ orphans = <<>>
    /\ children = [h \in Blocks |-> {}]
    /\ opc = "idle"
    /\ root = 0
    /\ process_queue = <<>>
    /\ processing = <<>>
    /\ sweep_i = 1
    /\ reval_roots = <<>>
    /\ queued_hashes = <<>>
    /\ validate_calls = <<>>
    /\ call = NoCall

OrphansStart == OrphansInit /\ SemParked /\ FrontierParked /\ TemplateParked /\ ModifyParked
    /\ RevalidateParked /\ CacheParked /\ DifficultyParked /\ ReachParked /\ GhostdagParked
    /\ ChunksParked /\ IngestParked /\ KeysParked /\ MinersParked

SpecOrphans == OrphansStart /\ [][OrphansNext]_vars

\* the running handler of the pool gets its steps; calls and consensus come as they come
SpecOrphansFair == OrphansStart /\ [][OrphansNext]_vars /\ WF_vars(pool_handler_step)

SemStart == SemInit /\ OrphansParked /\ FrontierParked /\ TemplateParked /\ ModifyParked
    /\ RevalidateParked /\ CacheParked /\ DifficultyParked /\ ReachParked /\ GhostdagParked
    /\ ChunksParked /\ IngestParked /\ KeysParked /\ MinersParked

SpecSemaphore == SemStart /\ [][SemNext]_vars

\* the scheduler runs every client that can take a step; whether a client calls
\* or releases is up to the client
SpecSemaphoreFair ==
    SemStart /\ [][SemNext]_vars /\ \A c \in Clients : WF_vars(client_step(c))

FrontierStart == FrontierInit /\ OrphansParked /\ SemParked /\ TemplateParked /\ ModifyParked
    /\ RevalidateParked /\ CacheParked /\ DifficultyParked /\ ReachParked /\ GhostdagParked
    /\ ChunksParked /\ IngestParked /\ KeysParked /\ MinersParked

SpecFrontier == FrontierStart /\ [][FrontierNext]_vars

TemplateStart == TemplateInit /\ OrphansParked /\ SemParked /\ FrontierParked /\ ModifyParked
    /\ RevalidateParked /\ CacheParked /\ DifficultyParked /\ ReachParked /\ GhostdagParked
    /\ ChunksParked /\ IngestParked /\ KeysParked /\ MinersParked

SpecTemplate == TemplateStart /\ [][TemplateNext]_vars

TemplateQuietStart == TemplateQuietInit /\ OrphansParked /\ SemParked /\ FrontierParked
    /\ ModifyParked /\ RevalidateParked /\ CacheParked /\ DifficultyParked /\ ReachParked
    /\ GhostdagParked /\ ChunksParked /\ IngestParked /\ KeysParked /\ MinersParked

\* the caller's thread keeps running: a step of the loop that stays possible is taken
SpecTemplateQuiet ==
    TemplateQuietStart /\ [][TemplateQuietNext]_vars /\ WF_vars(template_loop_step)

ModifyStart == ModifyInit /\ OrphansParked /\ SemParked /\ FrontierParked /\ TemplateParked
    /\ RevalidateParked /\ CacheParked /\ DifficultyParked /\ ReachParked /\ GhostdagParked
    /\ ChunksParked /\ IngestParked /\ KeysParked /\ MinersParked

SpecModify == ModifyStart /\ [][ModifyNext]_vars

RevalidateStart == RevalidateInit /\ OrphansParked /\ SemParked /\ FrontierParked
    /\ TemplateCallParked /\ ModifyParked /\ CacheParked /\ DifficultyParked /\ ReachParked
    /\ GhostdagParked /\ ChunksParked /\ IngestParked /\ KeysParked /\ MinersParked

SpecRevalidate == RevalidateStart /\ [][RevalidateNext]_vars

CacheStart == CacheInit /\ OrphansParked /\ SemParked /\ FrontierParked /\ TemplateParked
    /\ ModifyParked /\ RevalidateParked /\ DifficultyParked /\ ReachParked /\ GhostdagParked
    /\ ChunksParked /\ IngestParked /\ KeysParked /\ MinersParked

SpecCache == CacheStart /\ [][CacheNext]_vars

DifficultyStart == DifficultyInit /\ OrphansParked /\ SemParked /\ FrontierParked
    /\ TemplateParked /\ ModifyParked /\ RevalidateParked /\ CacheParked /\ ReachParked
    /\ GhostdagParked /\ ChunksParked /\ IngestParked /\ KeysParked /\ MinersParked

SpecDifficulty == DifficultyStart /\ [][DifficultyNext]_vars

TreeStart == ReachInit /\ OrphansParked /\ SemParked /\ FrontierParked /\ TemplateParked
    /\ ModifyParked /\ RevalidateParked /\ CacheParked /\ DifficultyParked /\ GhostdagParked
    /\ ChunksParked /\ IngestParked /\ KeysParked /\ MinersParked

SpecTree == TreeStart /\ [][TreeNext]_vars

DagStart == ReachInit /\ OrphansParked /\ SemParked /\ FrontierParked /\ TemplateParked
    /\ ModifyParked /\ RevalidateParked /\ CacheParked /\ DifficultyParked /\ GhostdagParked
    /\ ChunksParked /\ IngestParked /\ KeysParked /\ MinersParked

SpecDag == DagStart /\ [][DagNext]_vars

GhostdagStart == GhostdagInit /\ OrphansParked /\ SemParked /\ FrontierParked /\ TemplateParked
    /\ ModifyParked /\ RevalidateParked /\ CacheParked /\ DifficultyParked /\ ReachParked
    /\ ChunksParked /\ IngestParked /\ KeysParked /\ MinersParked

SpecGhostdag == GhostdagStart /\ [][GhostdagNext]_vars

\* the chunk loop over every vector of masses
ChunksStart == ChunksInit /\ OrphansParked /\ SemParked /\ FrontierParked /\ TemplateParked
    /\ ModifyParked /\ RevalidateParked /\ CacheParked /\ DifficultyParked /\ ReachParked
    /\ GhostdagParked /\ IngestParked /\ KeysParked /\ MinersParked

SpecChunks == ChunksStart /\ [][ChunksNext]_vars

\* a call that takes transactions into the mempool, or revalidates them
IngestStart == IngestInit /\ OrphansParked /\ SemParked /\ FrontierParked /\ TemplateCallParked
    /\ ModifyParked /\ RevalidateParked /\ CacheParked /\ DifficultyParked /\ ReachParked
    /\ GhostdagParked /\ ChunksParked /\ KeysParked /\ MinersParked

SpecIngest == IngestStart /\ [][IngestNext]_vars

\* a call of validate_and_insert_mutable_transaction by a thread that is
\* scheduled as long as it can run: it waits for nothing but the mempool lock,
\* which every other thread gives back
CascadeStart == CascadeInit /\ OrphansParked /\ SemParked /\ FrontierParked
    /\ TemplateCallParked /\ ModifyParked /\ RevalidateParked /\ CacheParked /\ DifficultyParked
    /\ ReachParked /\ GhostdagParked /\ ChunksParked /\ KeysParked /\ MinersParked

SpecCascadeFair == CascadeStart /\ [][CascadeNext]_vars /\ WF_vars(CascadeThread)

KeysStart == KeysInit /\ OrphansParked /\ SemParked /\ FrontierParked /\ TemplateParked
    /\ ModifyParked /\ RevalidateParked /\ CacheParked /\ DifficultyParked /\ ReachParked
    /\ GhostdagParked /\ ChunksParked /\ IngestParked /\ MinersParked

SpecKeys == KeysStart /\ [][KeysNext]_vars

MinersStart == MinersInit /\ OrphansParked /\ SemParked /\ FrontierParked /\ TemplateParked
    /\ ModifyParked /\ RevalidateParked /\ CacheParked /\ DifficultyParked /\ ReachParked
    /\ GhostdagParked /\ ChunksParked /\ IngestParked /\ KeysParked

SpecMiners == MinersStart /\ [][MinersNext]_vars

-----------------------------------------------------------------------------
(* Properties of the orphan pool *)

returned(op) == opc = "done" /\ call.op = op

\* the ancestors a parent BFS from pool entry o reaches: the parents of a hash are
\* known only while the hash is in the pool
RECURSIVE bfs_closure(_, _)
bfs_closure(orph, S) ==
    LET next == S \cup UNION {Range(parents[x]) : x \in S \cap Range(orph)}
    IN  IF next = S THEN S ELSE bfs_closure(orph, next)

bfs_ancestors(orph, o) == bfs_closure(orph, {o}) \ {o}

missing_roots(orph, st, o) ==
    {x \in bfs_ancestors(orph, o) : ~contains_key(orph, x) /\ st[x] \in {"none", "header"}}

\* pool entries that descend from r through parent links between entries of orph
RECURSIVE pool_descendants(_, _)
pool_descendants(orph, S) ==
    LET next == S \cup {d \in Range(orph) : Range(parents[d]) \cap S # {}}
    IN  IF next = S THEN S ELSE pool_descendants(orph, next)

\* every direct parent of d has a non-header-only status or was submitted in the call
parents_ready(d) ==
    \A p \in Range(parents[d]) : p \in Range(call.blocks) \/ ~is_none_or_header_only(status, p)

C2_OrphanRootsCorrect ==
    (/\ opc = "done"
     /\ call.op \in {"add_orphan", "get_orphan_roots_if_known"}
     /\ contains_key(orphans, call.hash)
     /\ call.ret.kind # "None")
    => /\ Range(call.ret.roots) = missing_roots(orphans, status, call.hash)
       /\ Cardinality(Range(call.ret.roots)) = Len(call.ret.roots)

\* roots were reported for an orphan with an ancestor in the pool and with another
\* ancestor that is no root because consensus has its body or knows it as invalid
C2_Witness ==
    /\ returned("get_orphan_roots_if_known")
    /\ call.ret.kind = "Roots"
    /\ \E x \in bfs_ancestors(orphans, call.hash) : contains_key(orphans, x)
    /\ \E x \in bfs_ancestors(orphans, call.hash) :
          ~contains_key(orphans, x) /\ status[x] \in {"body", "invalid"}

\* C3: the pool never holds more than max_orphans blocks, and an add_orphan on a
\* full pool evicts exactly one entry before it inserts the new block.
C3_PoolBounded ==
    /\ Len(orphans) <= max_orphans
    /\ (/\ returned("add_orphan")
        /\ call.ret.kind # "None"
        /\ Len(call.pre_orphans) = max_orphans)
       => /\ Cardinality(Range(call.pre_orphans) \ Range(orphans)) = 1
          /\ Range(orphans) \ Range(call.pre_orphans) = {call.hash}
          /\ Len(orphans) = max_orphans

\* a block was added to a full pool
C3_Witness ==
    /\ returned("add_orphan")
    /\ call.ret.kind # "None"
    /\ Len(call.pre_orphans) = max_orphans

\* C4 as stated: when revalidate_orphans has returned, every block still in the
\* pool has a direct parent that is in the pool or is unknown or header-only in
\* consensus.
C4_RevalidateLeavesOnlyBlocked ==
    returned("revalidate_orphans") =>
        \A d \in Range(orphans) :
            \E p \in Range(parents[d]) : contains_key(orphans, p) \/ is_none_or_header_only(status, p)

\* C5: Unknown iff the hash is not in the pool; otherwise Roots with a non-empty
\* list iff there is a missing root, NoRoots iff there is none but a proper
\* ancestor is in the pool, NotOrphan iff there is neither. The pool is unchanged.
C5_QueryClassification ==
    returned("get_orphan_roots_if_known") =>
        LET known == contains_key(orphans, call.hash)
            missing == missing_roots(orphans, status, call.hash)
            in_pool == {x \in bfs_ancestors(orphans, call.hash) : contains_key(orphans, x)}
        IN  /\ call.ret.kind \in {"Unknown", "Roots", "NoRoots", "NotOrphan"}
            /\ call.ret.kind = "Unknown" <=> ~known
            /\ call.ret.kind = "Roots" <=> known /\ missing # {}
            /\ call.ret.kind = "Roots" => call.ret.roots # <<>>
            /\ call.ret.kind = "NoRoots" <=> known /\ missing = {} /\ in_pool # {}
            /\ call.ret.kind = "NotOrphan" <=> known /\ missing = {} /\ in_pool = {}
            /\ orphans = call.pre_orphans
            /\ children = call.pre_children

\* the query answered NotOrphan for a block whose parents all have a body
C5_Witness ==
    /\ returned("get_orphan_roots_if_known")
    /\ call.ret.kind = "NotOrphan"

\* C6: add_orphan returns None exactly when the block is already in the pool, and
\* then the pool is unchanged; otherwise it returns an output and the block is in
\* the pool when the call returns, also when the pool was full.
C6_AddOrphanResult ==
    returned("add_orphan") =>
        /\ call.ret.kind = "None" <=> contains_key(call.pre_orphans, call.hash)
        /\ call.ret.kind = "None" => orphans = call.pre_orphans /\ children = call.pre_children
        /\ call.ret.kind # "None" => contains_key(orphans, call.hash)

\* a new block was added to a full pool by evicting the entry at the last index
C6_Witness ==
    /\ returned("add_orphan")
    /\ call.ret.kind # "None"
    /\ Len(call.pre_orphans) = max_orphans
    /\ call.pre_orphans[max_orphans] \notin Range(orphans)

\* the loop of unorphan_blocks is running, on its own or under revalidate_orphans
in_unorphan_loop == opc \in {"unorphan", "reval_unorphan"}

\* this step submits pool entry h to consensus
submits(h) == in_unorphan_loop /\ processing' = Append(processing, h)

\* a direct parent of d that was not submitted so far in the call and that consensus
\* does not know or knows by its header only
has_unready_parent(d, submitted, st) ==
    \E p \in Range(parents[d]) : p \notin submitted /\ is_none_or_header_only(st, p)

\* when the call has returned, an orphan other than the root entry (which the call
\* removes first) with a direct parent that was not submitted and is unknown or
\* header-only is in the pool, not submitted, with its children set as it was
unready_orphans_stay ==
    returned("unorphan_blocks") =>
        \A d \in Range(call.pre_orphans) \ {call.hash} :
            has_unready_parent(d, Range(call.blocks), status) =>
                /\ contains_key(orphans, d)
                /\ d \notin Range(call.blocks)
                /\ children[d] = call.pre_children[d]

\* a step submits a pool entry only if each direct parent was submitted earlier in the
\* call or has a status that is present and not header-only, and it leaves every
\* pool entry with another kind of parent alone
submits_only_ready ==
    /\ \A h \in Blocks :
           submits(h) =>
               /\ contains_key(orphans, h)
               /\ ~contains_key(orphans', h)
               /\ \A p \in Range(parents[h]) :
                      \/ \E i \in 1..Len(processing) : processing[i] = p
                      \/ status[p] \in {"body", "invalid"}
    /\ (in_unorphan_loop /\ opc' = opc) =>
           \A d \in Range(orphans) :
               has_unready_parent(d, Range(processing), status) =>
                   /\ contains_key(orphans', d)
                   /\ children'[d] = children[d]
                   /\ ~submits(d)

\* C22 as stated: unorphan_blocks submits an orphan only if each of its direct parents
\* was submitted earlier in the same call or has a status that is present and not
\* header-only; every parent submitted in the call is submitted before its children;
\* and an orphan with an unknown or header-only parent stays in the pool untouched.
C22_UnorphanTopological ==
    /\ [](\A i, j \in 1..Len(processing) :
             processing[i] \in Range(parents[processing[j]]) => i < j)
    /\ []unready_orphans_stay
    /\ [][submits_only_ready]_vars

\* C22 amended: unorphan_blocks submits an orphan only if each of its direct parents
\* was submitted earlier in the same call or has a status that is present and not
\* header-only; a parent submitted in the call after one of its children is a block
\* consensus already had a status for that is not header-only; and an orphan with a
\* parent that was not submitted and is unknown or header-only stays in the pool
\* untouched.
C22_UnorphanParentsReady ==
    /\ [](\A i, j \in 1..Len(processing) :
             (processing[i] \in Range(parents[processing[j]]) /\ j < i)
                 => status[processing[i]] \in {"body", "invalid"})
    /\ []unready_orphans_stay
    /\ [][submits_only_ready]_vars

\* a call that submitted a block and then its child while consensus had not yet
\* stored a status for the block: the child went through on the strength of the
\* submission alone
C22_Witness ==
    /\ returned("unorphan_blocks")
    /\ Len(call.blocks) = 2
    /\ call.blocks[1] \in Range(parents[call.blocks[2]])
    /\ status[call.blocks[1]] = "none"
    /\ call.blocks[1] \in inflight

\* C23: for any two blocks P and C that are both in the pool, P a direct parent of C,
\* the hash of C is in the children set of P, in every state: after insertions in any
\* order, evictions, re-insertions of evicted blocks and the removals of
\* unorphan_blocks and revalidate_orphans (the set may hold more hashes).
C23_ChildrenSuperset ==
    \A P \in Range(orphans), C \in Range(orphans) :
        P \in Range(parents[C]) => C \in children[P]

\* a parent in the pool whose set holds a child that is in the pool and a hash that
\* is no longer in the pool
C23_Witness ==
    \E P \in Range(orphans), C \in Range(orphans) :
        /\ P \in Range(parents[C])
        /\ C \in children[P]
        /\ \E gone_child \in children[P] : ~contains_key(orphans, gone_child)

\* the first sweep of revalidate_orphans has come to its end
sweep_ended == opc = "sweep" /\ sweep_i > Len(orphans)

no_repeats(blocks) == \A a, b \in 1..Len(blocks) : a # b => blocks[a] # blocks[b]

\* C33: within one call of unorphan_blocks or revalidate_orphans no block is
\* passed to validate_and_insert_block twice, the returned vector has no
\* repeated block, and it has one entry for every block passed: the blocks of
\* the processing map for unorphan_blocks, and for revalidate_orphans the
\* hashes in the order in which the blocks were passed.
C33_NoDoubleSubmission ==
    /\ no_repeats(validate_calls)
    /\ opc \in {"unorphan", "reval_unorphan"} => no_repeats(processing)
    /\ opc = "done" /\ call.op = "unorphan_blocks" =>
        /\ no_repeats(call.blocks)
        /\ Len(call.blocks) = Len(validate_calls)
        /\ Range(call.blocks) = Range(validate_calls)
    /\ opc = "done" /\ call.op = "revalidate_orphans" =>
        /\ no_repeats(call.blocks)
        /\ call.blocks = validate_calls

\* unorphan_blocks has returned a block that was in the queue a second time
\* after it had been passed on: one of its parents in the pool, known to
\* consensus already, was passed on after it
C33_Witness ==
    /\ opc = "done"
    /\ call.op = "unorphan_blocks"
    /\ \E a, b \in 1..Len(call.blocks) :
        /\ a < b
        /\ call.blocks[b] \in Range(parents[call.blocks[a]])

\* revalidate_orphans has returned a root and blocks of its fan-out
revalidate_fanned_out ==
    /\ opc = "done"
    /\ call.op = "revalidate_orphans"
    /\ Len(call.blocks) >= 2
    /\ \E b \in Range(call.blocks) : Range(parents[b]) \cap Range(call.blocks) # {}

\* this step is an iteration of the while loop of unorphan_blocks
unorphan_iteration ==
    /\ opc \in {"unorphan", "reval_unorphan"}
    /\ opc' = opc
    /\ process_queue' # process_queue \/ orphans' # orphans

\* this step is an iteration of the first sweep of revalidate_orphans
sweep_iteration ==
    /\ opc = "sweep"
    /\ opc' = "sweep"
    /\ sweep_i' # sweep_i \/ orphans' # orphans

\* C40: every call of unorphan_blocks and of revalidate_orphans returns. An
\* iteration of unorphan_blocks takes one hash off the queue and either leaves
\* the pool alone or removes that block from the pool, and only then are hashes
\* enqueued; an iteration of the first sweep either advances the index and
\* leaves the pool alone or removes one block and stays.
C40_PoolOperationsTerminate ==
    /\ opc = "unorphan" ~> opc = "done"
    /\ opc = "sweep" ~> opc = "reval"
    /\ opc \in {"reval", "reval_unorphan"} ~> opc = "done"
    /\ [][unorphan_iteration =>
            /\ process_queue # <<>>
            /\ \/ /\ orphans' = orphans
                  /\ process_queue' = Tail(process_queue)
               \/ /\ Len(orphans') = Len(orphans) - 1
                  /\ Range(orphans') = Range(orphans) \ {Head(process_queue)}
                  /\ Head(process_queue) \notin Range(process_queue')]_vars
    /\ [][sweep_iteration =>
            \/ sweep_i' = sweep_i + 1 /\ orphans' = orphans
            \/ sweep_i' = sweep_i /\ Len(orphans') = Len(orphans) - 1]_vars
    /\ [](opc = "sweep" => sweep_i <= Len(orphans) + 1)

\* inside unorphan_blocks: c was enqueued by a parent that is done and taken off
\* the queue while its parent b was not ready; b is next and will enqueue c again
C40_Witness ==
    /\ opc = "unorphan"
    /\ process_queue # <<>>
    /\ LET b == Head(process_queue)
       IN  /\ contains_key(orphans, b)
           /\ unorphan_processable(b, Range(processing), status)
           /\ \E c \in children[b] :
               /\ contains_key(orphans, c)
               /\ c \notin Range(process_queue)
               /\ \E a \in Range(processing) \cup {root} : a # b /\ a \in Range(parents[c])

-----------------------------------------------------------------------------
(* Properties of the semaphore *)

\* C7: while a client holds MAX_PERMITS permits no other client holds any permit,
\* and while a client holds 1 permit no client holds MAX_PERMITS.
C7_ReaderWriterExclusion ==
    \A c, d \in Clients :
        c # d /\ client[c].held = MAX_PERMITS => client[d].held = 0

\* a writer holds MAX_PERMITS while another client, whose earlier try failed and
\* who listens, retries its acquire
C7_Witness ==
    \E c, d \in Clients :
        /\ client[c].held = MAX_PERMITS
        /\ client[d].pc = "load"
        /\ client[d].listener
        /\ client[d].permits = 1

\* this step ends a try_acquire of client c with None: try_acquire returns None to
\* its caller, or to the loop of acquire, which goes on to its listener
try_acquire_none(c) ==
    /\ client[c].pc \in {"load", "cas"}
    /\ \/ client'[c].pc = "idle" /\ client'[c].held = 0
       \/ client'[c].pc = "take"

RECURSIVE permits_held(_)
permits_held(cs) ==
    IF cs = {} THEN 0
    ELSE LET c == CHOOSE d \in cs : TRUE
         IN  client[c].held + permits_held(cs \ {c})

\* this step ends a call of try_acquire of client c with None
returns_none(c) ==
    /\ client[c].op = "try_acquire"
    /\ client[c].pc \in {"load", "cas"}
    /\ client'[c].pc = "idle"
    /\ client'[c].held = 0

\* this step ends a try_acquire of client c with Some
returns_some(c) == client[c].held = 0 /\ client'[c].held > 0

\* C34: the counter and the permits held by the clients add up to the initial
\* number of permits, so the counter neither underflows nor overflows; a
\* try_acquire succeeds only on a counter that covers the permits, which is the
\* count it returns and from which it subtracts exactly the permits; it fails
\* only on a counter below the permits and leaves the counter alone.
C34_PermitConservation ==
    /\ [](counter + permits_held(Clients) = MAX_PERMITS)
    /\ [](counter \in 0..MAX_PERMITS)
    /\ [][\A c \in Clients :
            /\ returns_some(c) =>
                 /\ client[c].pc = "cas"
                 /\ client[c].count = counter
                 /\ counter >= client[c].permits
                 /\ counter' = counter - client[c].permits
                 /\ client'[c].held = client[c].permits
            /\ returns_none(c) =>
                 /\ counter < client[c].permits
                 /\ counter' = counter
                 /\ client'[c].held = 0
            /\ (client[c].op = "try_acquire" /\ client[c].pc = "load"
                   /\ counter >= client[c].permits /\ client'[c] # client[c])
                 => client'[c].pc = "cas"]_vars

\* a client is about to exchange on a count that another client, which took a
\* permit in between, has made stale
C34_Witness ==
    \E c, d \in Clients :
        /\ client[c].held = 1
        /\ client[d].pc = "cas"
        /\ client[d].op = "try_acquire"
        /\ client[d].count # counter
        /\ counter = MAX_PERMITS - 1

\* client c is inside acquire or blocking_acquire for p permits
in_acquire(c, p) ==
    /\ client[c].op \in {"acquire", "blocking_acquire"}
    /\ client[c].pc \in {"load", "cas", "take", "wait"}
    /\ client[c].permits = p

\* a client waits only on a listener that was registered throughout its last
\* failed try_acquire, and that is still registered
listens_before_waiting ==
    /\ [](\A c \in Clients : client[c].listener => c \in Range(signal))
    /\ [](\A c \in Clients : client[c].pc = "wait" => client[c].listener)
    /\ [][\A c \in Clients : client[c].pc # "wait" /\ client'[c].pc = "wait" =>
            client[c].pc = "take" /\ client[c].listener]_vars
    /\ [][\A c \in Clients : client[c].pc # "take" /\ client'[c].pc = "take" =>
            /\ client[c].pc \in {"load", "cas"}
            /\ counter < client[c].permits
            /\ client'[c].listener = client[c].listener]_vars
    /\ [][\A c \in Clients : ~client[c].listener /\ client'[c].listener =>
            client'[c].pc \in {"load", "yield_wait"}]_vars

\* the notify of a release of MAX_PERMITS notifies every listener, and a
\* notified client wakes
writer_release_wakes_all ==
    /\ [][\A c \in Clients :
            client[c].pc = "notify" /\ client'[c].pc # "notify" /\ client[c].permits = MAX_PERMITS
                => Range(signal) \subseteq notified']_vars
    /\ \A c \in Clients : (client[c].pc = "wait" /\ c \in notified) ~> client[c].pc # "wait"

-----------------------------------------------------------------------------
(* Properties of the mempool frontier *)

\* the keys sample may still yield: those some query in [0, total_weight) finds
\* and the seen-set does not hold
can_yield ==
    {get_by_argument(feerate_order, cuts, query) : query \in 0..(total_weight - 1)}
        \ (cache \cup {0})

\* C8: for any frontier and any amount n, sample yields exactly
\* min(n, |frontier|) keys with pairwise distinct transaction ids, and every key
\* of the frontier when |frontier| <= n: the call does not panic, while keys are
\* owed a next one can be drawn, and what was yielded is as stated.
C8_SampleDistinct ==
    /\ fpc # "panicked"
    /\ fpc = "sampling" => can_yield # {}
    /\ fpc = "done" =>
        /\ Len(sampled) = Min(amount, Len(feerate_order))
        /\ \A i, j \in 1..Len(sampled) : i # j => sampled[i] # sampled[j]
        /\ Range(sampled) \subseteq Range(feerate_order)
        /\ Len(feerate_order) <= amount => Range(sampled) = Range(feerate_order)

\* the sum of the weights of the keys, in exact arithmetic
RECURSIVE sum_weight(_)
sum_weight(order) ==
    IF order = <<>> THEN 0 ELSE weight_of(key_of[Head(order)]) + sum_weight(Tail(order))

RECURSIVE sum_mass(_)
sum_mass(order) ==
    IF order = <<>> THEN 0 ELSE key_of[Head(order)].mass + sum_mass(Tail(order))

frontier_unchanged_by_call ==
    /\ feerate_order = fcall.pre_order
    /\ total_weight = fcall.pre_weight
    /\ total_mass = fcall.pre_mass

\* C9: after any sequence of inserts and removes total_weight is the sum of
\* feerate^ALPHA over the keys present and total_mass the sum of their masses;
\* an insert of a key already present and a remove of an absent key return false
\* and leave the totals and the key set as they were.
C9_FrontierTotals ==
    /\ total_weight = sum_weight(feerate_order)
    /\ total_mass = sum_mass(feerate_order)
    /\ fcall.op = "insert" /\ tree_contains(fcall.pre_order, fcall.key) =>
        ~fcall.ret /\ frontier_unchanged_by_call
    /\ fcall.op = "remove" /\ ~tree_contains(fcall.pre_order, fcall.key) =>
        ~fcall.ret /\ frontier_unchanged_by_call

\* the exact sum of the weights of the keys before position i of the feerate order
weight_before(order, i) == sum_weight(SubSeq(order, 1, i - 1))

\* C26: for every query q with 0 <= q < total_weight the descent of locate_in_inner
\* and locate_in_leaf returns a key, never None, and the key k it returns is the one
\* with (sum of the weights of the keys before k) <= q < (sum of the weights up to and
\* including k), so that every key is found by a range of queries as long as its
\* weight, also where one leaf ends and the next begins.
C26_WeightedSearch ==
    fpc = "sampling" =>
        \A query \in 0..(total_weight - 1) :
            LET item == get_by_argument(feerate_order, cuts, query)
            IN  /\ item # 0
                /\ \E i \in 1..Len(feerate_order) :
                       /\ feerate_order[i] = item
                       /\ weight_before(feerate_order, i) <= query
                       /\ query < weight_before(feerate_order, i + 1)

-----------------------------------------------------------------------------
(* Properties of get_block_template *)

\* what a round that consensus answered with InvalidTransactionsInNewBlock has
\* to take out of the pool: every cited transaction, and the redeemers in the
\* pool of those cited with an error other than MissingTxOutpoints
owed_removals(pool, cited) ==
    {cited[k].tx : k \in 1..Len(cited)} \cup
    UNION {redeemers(pool, cited[k].tx) :
              k \in {j \in 1..Len(cited) : cited[j].err # "MissingTxOutpoints" /\ cited[j].tx \in pool}}

\* C10: a round of get_block_template that consensus answers with
\* InvalidTransactionsInNewBlock takes every cited transaction out of the
\* mempool, with its redeemers unless its error is MissingTxOutpoints, and
\* nothing else, and the loop goes on to read a fresh candidate set; a round
\* answered with any other error returns that error with the mempool and the
\* template cache as they were.
C10_InvalidRemovedThenRetry ==
    /\ [](tpc = "removed" =>
            /\ mempool = tcall.pre_mempool \ owed_removals(tcall.pre_mempool, tcall.cited)
            /\ template_cache = tcall.pre_cache)
    /\ [](tpc = "done" /\ tcall.step = "failed" =>
            /\ tcall.ret = "Err"
            /\ mempool = tcall.pre_mempool
            /\ template_cache = tcall.pre_cache)
    /\ [][tpc = "removed" => tpc' = "candidates"]_vars
    /\ [][tpc = "candidates" /\ tpc' # "candidates" =>
            tpc' = "build" /\ transactions' = block_candidate_transactions(mempool)]_vars

\* a removal round has ended that cited one transaction for missing outpoints
\* and another, which had redeemers in the pool, for a different error
C10_Witness ==
    /\ tpc = "removed"
    /\ \E i, j \in 1..Len(tcall.cited) :
        /\ tcall.cited[i].err = "MissingTxOutpoints"
        /\ redeemers(tcall.pre_mempool, tcall.cited[i].tx) # {}
        /\ tcall.cited[j].err # "MissingTxOutpoints"
        /\ redeemers(tcall.pre_mempool, tcall.cited[j].tx) # {}

in_template_loop == tpc \in {"candidates", "build", "remove", "removed"}

\* C11: with no insertions into the mempool, a call of get_block_template that
\* entered the loop returns, and no round of the loop offers consensus a
\* transaction that an earlier round of the same call was told is invalid.
C11_RetryLoopTerminates ==
    /\ in_template_loop ~> tpc = "done"
    /\ [](tpc = "build" => transactions \cap tcall.cited_before = {})

\* a call has returned after a round that removed cited transactions
C11_Witness ==
    /\ tpc = "done"
    /\ tcall.step \in {"built", "failed"}
    /\ tcall.cited_before # {}

\* a step that calls get_block_template
template_called == tpc = "idle" /\ tpc' # "idle"

\* C31: a call of get_block_template that finds an unexpired cached template
\* builds nothing and leaves the cache as it is; it returns that template
\* unchanged when the miner data are equal, and a clone that differs from it
\* in the miner data alone when they differ; the cache takes a template only
\* from a build that succeeded.
C31_TemplateCacheUse ==
    /\ [][template_called /\ template_cache' # NoTemplate =>
            /\ template_cache' = template_cache
            /\ tpc' = "done"
            /\ mempool' = mempool /\ transactions' = transactions
            /\ IF template_cache.miner_data = tcall'.miner_data
               THEN /\ tcall'.step = "cached"
                    /\ tcall'.ret = "Ok"
                    /\ tcall'.template = template_cache
               ELSE /\ tcall'.step = "modified"
                    /\ tcall'.ret = "Ok" =>
                         /\ tcall'.template.miner_data = tcall'.miner_data
                         /\ tcall'.template.txs = template_cache.txs]_vars
    /\ [][template_cache' \notin {template_cache, NoTemplate} =>
            /\ tpc = "build"
            /\ tpc' = "done"
            /\ tcall'.step = "built"
            /\ tcall'.ret = "Ok"
            /\ tcall'.template = template_cache']_vars

\* a call has returned a modified clone of a cached template that was built
\* for another miner and holds transactions
C31_Witness ==
    /\ tpc = "done"
    /\ tcall.step = "modified"
    /\ tcall.ret = "Ok"
    /\ template_cache # NoTemplate
    /\ template_cache.txs # {}
    /\ tcall.template.miner_data # template_cache.miner_data
    /\ tcall.template.txs = template_cache.txs

-----------------------------------------------------------------------------
(* Properties of modify_block_template *)

coinbase_of(t) == t.block.transactions[1]

last_script(t) == coinbase_of(t).outputs[Len(coinbase_of(t).outputs)]

\* C12: modify_block_template(modify_block_template(t, m1), m2) and
\* modify_block_template(t, m2), when they succeed, agree on the coinbase
\* payload, the hash merkle root, the miner data and, with a red reward, the
\* script of the last coinbase output.
C12_TemplateRoundtrip ==
    modified.direct.called /\ modified.direct.ok /\ modified.twice.called /\ modified.twice.ok =>
        LET direct == modified.direct.template
            twice == modified.twice.template
        IN  /\ coinbase_of(twice).payload = coinbase_of(direct).payload
            /\ twice.block.header.hash_merkle_root = direct.block.header.hash_merkle_root
            /\ twice.miner_data = direct.miner_data
            /\ twice.miner_data = modify_in.m2
            /\ direct.coinbase_has_red_reward => last_script(twice) = last_script(direct)

\* both ways to the second miner succeeded, on a template with a red reward, with
\* three different miners and a clock that moved between the calls
C12_Witness ==
    /\ mpc = "done"
    /\ modified.direct.ok /\ modified.twice.ok
    /\ modify_in.t.coinbase_has_red_reward
    /\ modify_in.m1.script_public_key # modify_in.m2.script_public_key
    /\ modify_in.m1.extra_data # modify_in.m2.extra_data
    /\ modify_in.t.miner_data # modify_in.m1
    /\ modified.twice.template.block.header.timestamp # modified.direct.template.block.header.timestamp

\* what one call of modify_block_template may change: r is what the call
\* returned for the template `before` and the miner data m
modify_changes_only(before, r, m) ==
    /\ r.ok = modify_coinbase_payload(coinbase_of(before).payload, m).ok
    /\ r.ok =>
        LET after == r.template
            old_outputs == coinbase_of(before).outputs
            new_outputs == coinbase_of(after).outputs
        IN  /\ Len(after.block.transactions) = Len(before.block.transactions)
            /\ \A i \in 2..Len(before.block.transactions) :
                    after.block.transactions[i] = before.block.transactions[i]
            /\ Len(new_outputs) = Len(old_outputs)
            /\ \A i \in 1..(Len(old_outputs) - 1) : new_outputs[i] = old_outputs[i]
            /\ ~before.coinbase_has_red_reward => new_outputs = old_outputs
            /\ after.coinbase_has_red_reward = before.coinbase_has_red_reward
            /\ after.block.header.timestamp >= before.block.header.timestamp
            /\ after.block.header.timestamp >= r.now
            /\ after.block.header.timestamp \in {before.block.header.timestamp, r.now}

\* C13: modify_block_template leaves the template it is given as it was; what
\* it returns differs from it at most in the coinbase payload, the script of
\* the last coinbase output (only with a red reward), the hash merkle root, the
\* timestamp (the maximum of the old one and the clock, so it never
\* decreases), the header hash and the miner data; the other transactions and
\* their order stay; a failure of modify_coinbase_payload is returned as an error.
C13_ModifyChangesOnly ==
    /\ [](/\ modified.direct.called => modify_changes_only(modify_in.t, modified.direct, modify_in.m2)
          /\ modified.once.called => modify_changes_only(modify_in.t, modified.once, modify_in.m1)
          /\ modified.twice.called =>
                modify_changes_only(modified.once.template, modified.twice, modify_in.m2))
    /\ [][/\ modify_in' = modify_in
          /\ modified.direct.called => modified'.direct = modified.direct
          /\ modified.once.called => modified'.once = modified.once]_vars

\* a template with a red reward was modified for another script while the
\* clock was behind its timestamp, and a call for miner data that does not fit failed
C13_Witness ==
    /\ mpc = "done"
    /\ modified.direct.ok
    /\ modify_in.t.coinbase_has_red_reward
    /\ last_script(modified.direct.template) # last_script(modify_in.t)
    /\ modified.direct.now < modify_in.t.block.header.timestamp
    /\ modified.direct.template.block.header.timestamp = modify_in.t.block.header.timestamp
    /\ modified.direct.template.block.header.hash # modify_in.t.block.header.hash
    /\ modified.once.called /\ ~modified.once.ok

-----------------------------------------------------------------------------
(* Properties of revalidate_high_priority_transactions *)

\* a step that applies one validation result
applies_result == rpc = "apply" /\ chunk_n' = chunk_n + 1

\* a step that ends a chunk
ends_chunk == rpc = "apply" /\ chunk_n > 0 /\ chunk_n' = 0

sent_ids == UNION {Elems(sink[i]) : i \in 1..Len(sink)}

\* C14: when the validation result of a high priority transaction is applied
\* and the transaction is still in the mempool, a success pushes its id and
\* leaves the mempool as it is, RejectMissingOutpoint removes that transaction
\* alone and keeps its redeemers, any other rule error removes it together with
\* its redeemers; a transaction no longer in the mempool is skipped, nothing
\* is removed and no id is pushed. The pushed ids are sent at the end of the
\* chunk, and an empty vector is never sent.
C14_RevalidationResults ==
    /\ [][applies_result =>
            LET transaction_id == applied'.transaction_id
                validation_result == applied'.validation_result
            IN  /\ transaction_id \in mempool /\ validation_result = "Ok" =>
                    /\ valid_ids' = Append(valid_ids, transaction_id)
                    /\ mempool' = mempool
                /\ transaction_id \in mempool /\ validation_result = "RejectMissingOutpoint" =>
                    /\ mempool' = mempool \ {transaction_id}
                    /\ redeemers(mempool, transaction_id) \subseteq mempool'
                    /\ valid_ids' = valid_ids
                /\ transaction_id \in mempool
                        /\ validation_result \notin {"Ok", "RejectMissingOutpoint"} =>
                    /\ mempool' = mempool \ ({transaction_id} \cup redeemers(mempool, transaction_id))
                    /\ valid_ids' = valid_ids
                /\ transaction_id \notin mempool =>
                    /\ mempool' = mempool
                    /\ valid_ids' = valid_ids
                /\ transaction_id \in revalidated
                /\ sink' = sink]_vars
    /\ [][ends_chunk => sink' = IF valid_ids = <<>> THEN sink ELSE Append(sink, valid_ids)]_vars
    /\ [](\A i \in 1..Len(sink) : sink[i] # <<>>)

\* a transaction that passed was sent and is in the mempool, and then one
\* was removed for a missing outpoint while a redeemer of it stays in the mempool
C14_Witness ==
    /\ rpc = "apply"
    /\ sink # <<>>
    /\ sent_ids \cap mempool # {}
    /\ applied.in_mempool
    /\ applied.validation_result = "RejectMissingOutpoint"
    /\ applied.transaction_id \notin mempool
    /\ redeemers(mempool \cup {applied.transaction_id}, applied.transaction_id) # {}

\* the transactions of the run whose batches are through
batches_processed == hp_transactions \ (batch \cup batch_txs)

\* the place of an id in the sink: the vector that carries it
sent_in(id) == CHOOSE i \in 1..Len(sink) : id \in Elems(sink[i])

\* the high priority transactions of the run that x depends on, through a
\* chain of high priority transactions of the run
RECURSIVE chained_dependencies(_)
chained_dependencies(x) ==
    LET direct == spends[x] \cap hp_transactions
    IN  direct \cup UNION {chained_dependencies(y) : y \in direct}

-----------------------------------------------------------------------------
(* Properties of the database cache *)

\* C16: a Unit(max_size) cache never holds more than max_size entries; the
\* tracked size of a Tracked(max_size) cache is at most max_size whenever no
\* insert, insert_many or update_if_entry_exists is under way; with max_size 0
\* the cache stays empty, whatever is called.
C16_CacheBounded ==
    /\ policy.kind = "Unit" => Len(inner.map) <= policy.max_size
    /\ policy.kind = "Tracked" /\ write_guard = "none" => inner.tracked_size <= policy.max_size
    /\ policy.max_size = 0 => inner = [map |-> <<>>, tracked_size |-> 0]

\* an insert into a Tracked cache had to remove two entries at random and
\* left the cache at its full size
C16_Witness ==
    /\ policy.kind = "Tracked"
    /\ write_guard = "none"
    /\ last_op = Op("insert", 2)
    /\ inner.tracked_size = policy.max_size
    /\ inner.map # <<>>

\* the estimated sizes of the entries of a map, added up
RECURSIVE sum_of_sizes(_)
sum_of_sizes(map) == IF map = <<>> THEN 0 ELSE Head(map).data + sum_of_sizes(Tail(map))

\* C36: under CachePolicy::Tracked the tracked size is the sum of the estimated
\* sizes of the entries in the map, after every call and after every round of
\* insert_many; so no eviction loop meets an empty map, and a loop removes at
\* most the entries that the map holds.
C36_TrackedSizeConsistent ==
    /\ [](policy.kind = "Tracked" => inner.tracked_size = sum_of_sizes(inner.map))
    /\ [](last_op.op # "panic")
    /\ [][last_op' # last_op => last_op'.evicted <= Len(inner.map) + 1]_vars

\* an insert of an entry larger than max_size into a Tracked cache that held
\* an entry has removed both, the new entry last
C36_Witness ==
    /\ policy.kind = "Tracked"
    /\ policy.max_size > 0
    /\ last_op = Op("insert", 2)
    /\ inner.map = <<>>
    /\ inner.tracked_size = 0

\* this step is a call of insert or a round of insert_many
inserts == last_op'.op \in {"insert", "insert_many"} /\ write_guard' = write_guard

\* C37: under CachePolicy::Unit an insert of a key that is cached replaces its
\* value: no entry is evicted and the number of entries stays; an entry is
\* evicted only by an insert that adds a new key to a cache that holds
\* max_size entries.
C37_UnitOverwriteKeepsEntries ==
    [][policy.kind = "Unit" /\ inserts =>
          LET added == map_keys(inner'.map) \ map_keys(inner.map)
              lost == map_keys(inner.map) \ map_keys(inner'.map)
          IN  /\ added = {} =>
                    /\ lost = {}
                    /\ Len(inner'.map) = Len(inner.map)
                    /\ last_op'.evicted = 0
              /\ (lost # {} \/ last_op'.evicted > 0) =>
                    /\ added # {}
                    /\ Len(inner.map) = policy.max_size]_vars

\* what holds of an insert into a Unit cache: it evicts one entry, any entry,
\* exactly when the cache holds max_size entries, whether the key is cached or
\* not, and the key is cached afterwards
unit_insert_evicts_when_full ==
    [][policy.kind = "Unit" /\ policy.max_size > 0 /\ inserts =>
          /\ last_op'.evicted = (IF Len(inner.map) = policy.max_size THEN 1 ELSE 0)
          /\ Len(inner'.map) \in {Len(inner.map) - last_op'.evicted,
                                   Len(inner.map) - last_op'.evicted + 1}]_vars

-----------------------------------------------------------------------------
(* Properties of calc_average_target *)

RECURSIVE exact_sum(_)
exact_sum(values) == IF values = <<>> THEN 0 ELSE Head(values) + exact_sum(Tail(values))

\* C17: for every non-empty window calc_average_target returns what
\* calc_average_target_unoptimized returns, the sum of the targets divided by
\* their number and rounded down; on the fast path nothing overflows Uint256.
C17_AverageTarget ==
    average.called =>
        /\ average.optimized.value = average.unoptimized.value
        /\ average.optimized.value =
                exact_sum([i \in 1..Len(difficulty_blocks) |->
                              from_compact_target_bits(difficulty_blocks[i])])
                    \div Len(difficulty_blocks)
        /\ average.optimized.fast => ~average.optimized.overflow

\* the fast path was taken for a window of several different targets whose
\* sum does not fit Uint256
C17_Witness ==
    /\ average.called
    /\ average.optimized.fast
    /\ Len(difficulty_blocks) > 1
    /\ \E i, j \in 1..Len(difficulty_blocks) :
            from_compact_target_bits(difficulty_blocks[i]) # from_compact_target_bits(difficulty_blocks[j])
    /\ exact_sum([i \in 1..Len(difficulty_blocks) |-> from_compact_target_bits(difficulty_blocks[i])])
            > Uint256MAX

-----------------------------------------------------------------------------
(* Properties of the reachability store *)

\* StoreValidationExtensions::validate_intervals: the walk over the tree from
\* the blocks of a queue, and the first error it meets
RECURSIVE validate_intervals_queue(_, _)
validate_intervals_queue(st, queue) ==
    IF queue = <<>> THEN "Ok"
    ELSE LET parent == Head(queue)
             block_children == st[parent].children
             parent_interval == st[parent].interval
         IN  IF is_empty(parent_interval) THEN "EmptyInterval"
             ELSE IF \E i \in 1..Len(block_children) :
                        ~strictly_contains(parent_interval, st[block_children[i]].interval)
             THEN "IntervalOutOfParentBounds"
             ELSE IF \E i \in 1..(Len(block_children) - 1) :
                        st[block_children[i]].interval.end + 1 # st[block_children[i + 1]].interval.start
             THEN "NonConsecutiveSiblingIntervals"
             ELSE validate_intervals_queue(st, Tail(queue) \o block_children)

validate_intervals(st, tree_root) == validate_intervals_queue(st, <<tree_root>>)

\* C19: after every TreeBuilder::add_block, reindexing or not, the interval
\* of every block is non-empty, the interval of a parent strictly contains
\* the interval of each child, and each child starts right after the end of
\* the child before it.
C19_TreeIntervals ==
    /\ validate_intervals(store, ORIGIN) = "Ok"
    /\ \A b \in DOMAIN store :
        /\ ~is_empty(store[b].interval)
        /\ \A i \in 1..Len(store[b].children) :
                strictly_contains(store[b].interval, store[store[b].children[i]].interval)
        /\ \A i \in 1..(Len(store[b].children) - 1) :
                store[store[b].children[i]].interval.end + 1
                    = store[store[b].children[i + 1]].interval.start

\* an insertion found its parent out of capacity and reindexed, in a tree
\* where some block has two children and the reindex root has moved
C19_Witness ==
    /\ built.reindexed
    /\ reindex_root # ORIGIN
    /\ \E b \in DOMAIN store : Len(store[b].children) >= 2

\* inclusive_past: the blocks reached from a block over the parents of the
\* relations, ORIGIN left out
RECURSIVE inclusive_past_queue(_, _, _)
inclusive_past_queue(rel, visited, queue) ==
    IF queue = <<>> THEN visited
    ELSE LET found == {parent \in Range(rel[Head(queue)]) : parent # ORIGIN /\ parent \notin visited}
         IN  inclusive_past_queue(rel, visited \cup found, Tail(queue) \o SetToSeq(found))

inclusive_past(rel, hash) == inclusive_past_queue(rel, {hash}, <<hash>>)

\* build_transitive_closure: closure.set(x, y, is_dag_ancestor_of(reachability, y, x))
build_transitive_closure(rel, st, hashes) ==
    [x \in hashes |-> [y \in hashes |-> is_dag_ancestor_of(st, y, x)]]

\* build_transitive_closure_ref: closure.set(x, y, past.contains(&y))
build_transitive_closure_ref(rel, hashes) ==
    [x \in hashes |-> [y \in hashes |-> y \in inclusive_past(rel, x)]]

\* StoreValidationExtensions::in_past_of, and whether its assertion holds
in_past_of(st, block, other) ==
    IF block = other THEN [res |-> FALSE, asserted |-> TRUE]
    ELSE [res |-> is_dag_ancestor_of(st, block, other),
          asserted |-> is_dag_ancestor_of(st, block, other) => ~is_dag_ancestor_of(st, other, block)]

dag_blocks == DOMAIN store \ {ORIGIN}

-----------------------------------------------------------------------------
(* Properties of the GHOSTDAG processor *)

mergeset_blues(B) == Elems(ghostdag_store[B].mergeset_blues)
mergeset_reds(B) == Elems(ghostdag_store[B].mergeset_reds)

\* the blocks of a set that are in the anticone of X, read off the relations
anticone_in(blocks, X) == {Y \in blocks : in_anticone(ghostdag_relations, X, Y)}

\* the blues B had when it came to the candidate: those of its selected chain and the
\* blues of its mergeset that precede the candidate in topological order
blues_before(B, candidate) ==
    blue_set(ghostdag_store, ghostdag_store[ghostdag_store[B].selected_parent])
    \cup {ghostdag_store[B].selected_parent}
    \cup {Y \in mergeset_blues(B) : sortable_less(ghostdag_store, Y, candidate)}

\* colouring the candidate blue would leave the candidate or a block that is already blue
\* with more than k blues in its anticone
would_violate(B, candidate) ==
    LET blues == blues_before(B, candidate) \cup {candidate}
    IN  \E X \in {candidate} \cup anticone_in(blues, candidate) :
            Cardinality(anticone_in(blues, X)) > ghostdag_k

\* C20: for every block B and every blue X of the mergeset of B, at most k blocks of
\* mergeset_blues(B) are in the anticone of X; and a candidate of the mergeset that would
\* take itself or a block that is already blue above k is among the reds of B
C20_KCluster ==
    \A B \in DOMAIN ghostdag_store :
        /\ \A X \in mergeset_blues(B) :
               Cardinality(anticone_in(mergeset_blues(B), X)) <= ghostdag_k
        /\ \A candidate \in mergeset_blues(B) \cup mergeset_reds(B) :
               would_violate(B, candidate) => candidate \in mergeset_reds(B)

\* a block with two blues of its mergeset in the anticone of each other, and a candidate it
\* coloured red because the blues in the anticone of the candidate outnumber k
C20_Witness ==
    \E B \in DOMAIN ghostdag_store :
        /\ \E X \in mergeset_blues(B) : anticone_in(mergeset_blues(B), X) # {}
        /\ \E candidate \in mergeset_reds(B) :
               /\ would_violate(B, candidate)
               /\ Cardinality(anticone_in(blues_before(B, candidate), candidate)) > ghostdag_k

\* the blocks whose only parent is the block before them, back to genesis
RECURSIVE single_parent_chain(_)
single_parent_chain(B) ==
    \/ B = genesis
    \/ \E p \in ghostdag_relations[B] :
           /\ ghostdag_relations[B] = {p}
           /\ single_parent_chain(p)

-----------------------------------------------------------------------------
(* Properties of the chunk loop *)

\* the lower bound of the k-th chunk
chunk_lower(k) == IF k = 1 THEN 0 ELSE upper_bounds[k - 1]

\* the total mass of the transactions lower+1..upper of the vector
RECURSIVE chunk_mass(_, _)
chunk_mass(lower, upper) ==
    IF lower >= upper THEN 0 ELSE chunk_txs[upper] + chunk_mass(lower, upper - 1)

\* C28: starting from lower bound 0 the bounds returned by
\* next_transaction_chunk_upper_bound cut the vector into consecutive chunks,
\* none of them empty, that cover every transaction once and in order, so that
\* at the end of the loop there are as many validation results as transactions;
\* a chunk of more than one transaction has a total mass below max_block_mass;
\* and None is returned exactly for the lower bounds at or past the length.
C28_Chunking ==
    /\ \A k \in 1..Len(upper_bounds) :
          /\ chunk_lower(k) < upper_bounds[k]
          /\ upper_bounds[k] <= Len(chunk_txs)
          /\ \/ upper_bounds[k] - chunk_lower(k) = 1
             \/ chunk_mass(chunk_lower(k), upper_bounds[k]) < max_block_mass
    /\ lower_bound = chunk_lower(Len(upper_bounds) + 1)
    /\ validated = [i \in 1..lower_bound |-> i]
    /\ cpc = "done" => Len(validated) = Len(chunk_txs)
    /\ \A lower \in 0..(Len(chunk_txs) + 1) :
          ~next_transaction_chunk_upper_bound(chunk_txs, lower).some <=> lower >= Len(chunk_txs)

\* the loop has ended after a chunk of several transactions and a chunk that
\* is one transaction of at least max_block_mass
C28_Witness ==
    /\ cpc = "done"
    /\ \E k \in 1..Len(upper_bounds) : upper_bounds[k] - chunk_lower(k) > 1
    /\ \E k \in 1..Len(upper_bounds) :
          /\ upper_bounds[k] - chunk_lower(k) = 1
          /\ chunk_txs[upper_bounds[k]] >= max_block_mass

-----------------------------------------------------------------------------
(* Properties of the mempool lock *)

\* C27: the consensus validates with no mempool lock held by the calling
\* thread: in each of the four functions the read guard taken to pre-validate,
\* populate or list is gone when validate_mempool_transaction(s) is called, the
\* write guard is taken only afterwards, with a result in hand for every
\* transaction of the vector, and is held only to insert, remove or update;
\* the thread never holds the read and the write guard together.
C27_LockDiscipline ==
    /\ ipc \in ValidateOps => guards = {}
    /\ ~({"read", "write"} \subseteq guards)
    /\ "read" \in guards => ipc \in ReadOps
    /\ "write" \in guards =>
          /\ ipc \in WriteOps
          /\ \A x \in layer : validation_results[x] # "none"

\* the thread holds the write lock to insert unorphaned transactions, which the
\* consensus validated while another thread wrote to the mempool
C27_Witness ==
    /\ ipc = "unorphaned_insert"
    /\ guards = {"write"}
    /\ gone # {}

-----------------------------------------------------------------------------
(* Properties of the unorphaning cascade *)

\* the transaction validate_and_insert_mutable_transaction was called with
the_transaction == CHOOSE x \in call_txs : TRUE

\* the orphans that an accepted transaction of the list would still unorphan
still_unorphanable ==
    {o \in orphan_pool : spends[o] \subseteq mempool /\ spends[o] \cap Elems(accepted_transactions) # {}}

\* what the list of a returned validate_and_insert_mutable_transaction holds
returned_list ==
    (single_call /\ ipc = "done") =>
        /\ incoming_transactions = {}
        /\ still_unorphanable = {}
        /\ \A i, j \in 1..Len(accepted_transactions) :
              accepted_transactions[i] = accepted_transactions[j] => i = j
        /\ IF post_outcome[the_transaction] = "Some"
           THEN /\ outcome = "Ok"
                /\ Head(accepted_transactions) = the_transaction
                /\ Elems(Tail(accepted_transactions))
                      = {x \in unorphaned_log : post_outcome[x] = "Some"}
           ELSE accepted_transactions = <<>>

-----------------------------------------------------------------------------
(* Properties of the stagger loops *)

\* no dependency cycle among the transactions of txs: every part of them has a
\* transaction that depends on no other of the part
acyclic(txs) == \A part \in SUBSET txs : part # {} => independent(part) # {}

\* the stagger has returned an empty vector with transactions left
empty_layer == ipc = "stagger" /\ stagger_left # {} /\ independent(stagger_left) = {}

released(x) == {i \in 1..Len(layers) : x \in layers[i]}

\* the only step from an empty vector is the panic
panic_on_empty_layer == empty_layer => (outcome' = "panic" /\ ipc' = "panicked")

\* C30: a dependency cycle among the staggered transactions is an invariant
\* error.  When the stagger returns an empty vector while transactions are
\* left, validate_and_insert_transaction_batch and
\* revalidate_high_priority_transactions panic: they take no other step, and
\* they panic for no other reason.  When the transactions are acyclic every
\* vector returned is non-empty, the panic is never reached, no transaction
\* is released twice, a released transaction depends only on transactions
\* released in earlier vectors, and at the return every transaction has been
\* released in exactly one vector.
C30_CyclePanics ==
    /\ [][panic_on_empty_layer]_vars
    /\ [](outcome = "panic" => (~acyclic(call_txs) /\ layers # <<>> /\ layers[Len(layers)] = {}))
    /\ []((entry # "validate_and_insert_mutable_transaction" /\ acyclic(call_txs)) =>
            /\ ~empty_layer
            /\ outcome # "panic"
            /\ \A i \in 1..Len(layers) : layers[i] # {}
            /\ \A x \in call_txs :
                  /\ Cardinality(released(x)) = IF x \in stagger_left THEN 0 ELSE 1
                  /\ \A y \in spends[x] \cap call_txs, i \in released(x) :
                        \E j \in released(y) : j < i
            /\ ipc = "done" => stagger_left = {})

\* a batch whose first vector went through and whose other transactions
\* depend on each other: the second call of the stagger led to the panic
C30_Witness ==
    /\ entry = "validate_and_insert_transaction_batch"
    /\ outcome = "panic"
    /\ Len(layers) = 2
    /\ layers[1] # {}

\* an acyclic batch of three transactions was released in three vectors
acyclic_batch_released ==
    /\ entry = "validate_and_insert_transaction_batch"
    /\ ipc = "done"
    /\ Len(layers) = 3
    /\ acyclic(call_txs)

-----------------------------------------------------------------------------
(* Properties of FeerateTransactionKey *)

\* weight, then priority fee, then transaction id
ordered_before(a, b) ==
    \/ weight_of(a) < weight_of(b)
    \/ weight_of(a) = weight_of(b) /\ a.priority_fee < b.priority_fee
    \/ weight_of(a) = weight_of(b) /\ a.priority_fee = b.priority_fee /\ a.tx < b.tx

\* the rounded power of the feerate that a priority fee and a mass give
powi_of(fee, mass) == round(2 * ((fee * (MassMultiple(MaxMass) \div mass)) ^ ALPHA))

\* C32: a key built for a high priority transaction keeps the fee and has the
\* larger of the fee and FEERATE_PRIORITY_FEE_CONST as priority fee, a key
\* built for a low priority one has the fee as priority fee; feerate and
\* weight come from the priority fee; and the order of two keys is the order
\* of their weights, then of their priority fees, then of their transaction
\* ids, whatever their fees.
C32_PriorityFeeFloor ==
    /\ \A i \in 1..2 : keys_built[i] # NoKey =>
        LET key == keys_built[i]
            mempool_tx == mempool_txs[i]
            expected == IF mempool_tx.priority = "Low" \/ mempool_tx.fee > FEERATE_PRIORITY_FEE_CONST
                        THEN mempool_tx.fee ELSE FEERATE_PRIORITY_FEE_CONST
        IN  /\ key.fee = mempool_tx.fee
            /\ key.mass = mempool_tx.mass
            /\ key.tx = mempool_tx.tx
            /\ key.priority_fee = expected
            /\ feerate(key) = expected * (MassMultiple(MaxMass) \div mempool_tx.mass)
            /\ weight_of(key) = powi_of(expected, mempool_tx.mass)
    /\ ordering # "none" =>
        /\ ordering = "Less" <=> ordered_before(keys_built[1], keys_built[2])
        /\ ordering = "Greater" <=> ordered_before(keys_built[2], keys_built[1])
        /\ ordering = "Equal" <=>
            /\ weight_of(keys_built[1]) = weight_of(keys_built[2])
            /\ keys_built[1].priority_fee = keys_built[2].priority_fee
            /\ keys_built[1].tx = keys_built[2].tx

\* a key raised to the floor was compared with a key of a larger fee that was
\* not, and the transaction ids decided against the larger fee
C32_Witness ==
    /\ ordering = "Greater"
    /\ keys_built[1].fee < FEERATE_PRIORITY_FEE_CONST
    /\ keys_built[1].priority_fee = FEERATE_PRIORITY_FEE_CONST
    /\ keys_built[2].fee = keys_built[2].priority_fee
    /\ keys_built[1].fee < keys_built[2].fee
    /\ keys_built[1].tx > keys_built[2].tx

\* C38: is_priority() is true of every key built from a high priority mempool
\* transaction and false of every key built from a low priority one.
C38_IsPriority ==
    \A i \in 1..2 : keys_built[i] # NoKey =>
        (is_priority(keys_built[i]) <=> mempool_txs[i].priority = "High")

\* what is_priority() tells apart: a key whose priority fee was raised above its fee
is_priority_when_floored ==
    \A i \in 1..2 : keys_built[i] # NoKey =>
        (is_priority(keys_built[i]) <=>
            /\ mempool_txs[i].priority = "High"
            /\ mempool_txs[i].fee < FEERATE_PRIORITY_FEE_CONST)

-----------------------------------------------------------------------------
(* Properties of concurrent calls of get_block_template *)

\* the mempool guards that caller c holds
holds_mempool(c) == c \in mempool_rw.read \cup mempool_rw.write

\* C39: a caller of get_block_template holds the cache mutex exactly while it
\* is in the build-and-retry loop, so at most one caller is in the loop and the
\* others wait for the mutex; a caller that then finds the template returns it,
\* or a modified clone of it, and builds nothing; only the caller in the loop
\* stores a template; modify_block_template runs without the mutex; and a
\* caller takes the mempool lock only while it holds the mutex, and never
\* takes the mutex while it holds the mempool lock.
C39_CallsSerialised ==
    /\ [](\A c \in Callers : in_loop(c) <=> cache_lock = c)
    /\ [](\A c, d \in Callers : in_loop(c) /\ in_loop(d) => c = d)
    /\ [](\A c \in Callers : miner[c].pc = "modify" => cache_lock # c)
    /\ [](\A c \in Callers : holds_mempool(c) => cache_lock = c)
    /\ [][\A c \in Callers : cache_lock # c /\ cache_lock' = c =>
            ~holds_mempool(c) /\ mempool_rw' = mempool_rw]_vars
    /\ [][\A c \in Callers :
            miner[c].pc = "lock" /\ miner'[c].pc # "lock" /\ block_template_cache' # NoCached =>
                /\ miner'[c].pc \in {"done", "modify"}
                /\ miner'[c].template = block_template_cache
                /\ block_template_cache' = block_template_cache
                /\ cache_lock' = 0]_vars
    /\ [](\A c \in Callers : miner[c].pc = "done" /\ miner[c].ret = "Ok" /\ ~miner[c].built =>
            /\ miner[c].template.built_by \in Callers
            /\ miner[c].template.miner_data = miner[c].miner_data)
    /\ [][block_template_cache' \notin {block_template_cache, NoCached} =>
            \E c \in Callers :
                /\ cache_lock = c
                /\ miner[c].pc = "build"
                /\ miner'[c].built
                /\ block_template_cache'.built_by = c]_vars

\* a caller that waited for the mutex while another caller was building has
\* returned a modified clone of the template that caller built
C39_Witness ==
    \E c, d \in Callers :
        /\ c # d
        /\ miner[d].pc = "done"
        /\ miner[d].waited_for = c
        /\ ~miner[d].built
        /\ miner[d].ret = "Ok"
        /\ miner[d].template.built_by = c
        /\ block_template_cache.built_by = c
        /\ block_template_cache.miner_data # miner[d].miner_data

====
